---------------------------- MODULE Spec2Model ----------------------------
(***************************************************************************)
(* Model of the N-dimensional math kernel of four-d-app:                   *)
(*   core/math/VectorND.ts  (VectorND, RotationND, getRotationPlanes)      *)
(*   core/math/MatrixND.ts  (MatrixND)                                      *)
(* and of the parts built on it:                                           *)
(*   core/geometry/polytopes.ts    (the polytope generators)               *)
(*   the projection functions      (perspective, orthographic, ...)        *)
(*   stores/appStore.ts            (the handlers of the application store) *)
(*   the viewer's frame callback   (createGeometry, buildRotationMatrix)   *)
(*   core/physics/PhysicsEngine.ts (particles, springs, boundaries)        *)
(*                                                                         *)
(* JavaScript numbers are modelled as exact rationals <<num, den>> in      *)
(* lowest terms with den > 0; floating-point rounding is abstracted away.  *)
(* Math.cos / Math.sin are modelled by a table of angles whose cosine and  *)
(* sine are rational (quarter turns and the 3-4-5 triangle).               *)
(***************************************************************************)
EXTENDS Integers, Sequences, FiniteSets, TLC

VARIABLES op, inp, out, heap, made, store, engine, callsMade

vars == <<op, inp, out, heap, made, store, engine, callsMade>>

(***************************************************************************)
(* Bounds of the model.                                                    *)
(***************************************************************************)
MaxDim == 3
MaxLen == 2
MaxPlaneDim == 7
MaxSize == 2
MaxHeap == 1
MaxSets == 1
MaxGeometryDim == 6
MaxSegments == 5
MaxRings == 3
MaxPointDim == 5
MaxStoreDim == 5
MaxCalls == 2
MaxParticles == 2
MaxEngineCalls == 1

(***************************************************************************)
(* number: exact rational arithmetic.                                      *)
(***************************************************************************)
Abs(x) == IF x < 0 THEN -x ELSE x

RECURSIVE GCD(_, _)
GCD(a, b) == IF b = 0 THEN a ELSE GCD(b, a % b)

Rat(n, d) ==
  LET g == GCD(Abs(n), Abs(d))
      s == IF d < 0 THEN -1 ELSE 1
  IN  <<(s * n) \div g, (s * d) \div g>>

Num(n) == <<n, 1>>

\* x + y, x - y, x * y; integers need no reduction to lowest terms
Plus(x, y) ==
  IF x[2] = 1 /\ y[2] = 1 THEN <<x[1] + y[1], 1>>
  ELSE Rat(x[1] * y[2] + y[1] * x[2], x[2] * y[2])

Minus(x, y) ==
  IF x[2] = 1 /\ y[2] = 1 THEN <<x[1] - y[1], 1>>
  ELSE Rat(x[1] * y[2] - y[1] * x[2], x[2] * y[2])

Times(x, y) ==
  IF x[2] = 1 /\ y[2] = 1 THEN <<x[1] * y[1], 1>>
  ELSE Rat(x[1] * y[1], x[2] * y[2])

Neg(x) == <<-x[1], x[2]>>

\* Math.abs(x), x < y
MathAbs(x) == <<Abs(x[1]), x[2]>>

Less(x, y) == x[1] * y[2] < y[1] * x[2]

\* x / y for y # 0
Div(x, y) == Rat(x[1] * y[2], x[2] * y[1])

\* the numbers whose square root is a rational
IsSquare(x) ==
  LET IsSquareNat(n) == \E r \in 0..n : r * r = n
  IN  x[1] >= 0 /\ IsSquareNat(x[1]) /\ IsSquareNat(x[2])

\* Math.sqrt on the numbers whose root is exact
MathSqrt(x) ==
  LET SqrtNat(n) == CHOOSE r \in 0..n : r * r = n
  IN  <<SqrtNat(x[1]), SqrtNat(x[2])>>

(***************************************************************************)
(* number, with the values that are not finite: Infinity is <<1, 0>>,      *)
(* -Infinity is <<-1, 0>> and NaN is <<0, 0>>.  The sign of a zero is not  *)
(* kept: a zero divisor is the +0 that a difference of equal numbers or a  *)
(* literal 0 gives.                                                        *)
(***************************************************************************)
\* x * y
NumberTimes(x, y) ==
  LET sign == (IF x[1] > 0 THEN 1 ELSE IF x[1] < 0 THEN -1 ELSE 0)
                * (IF y[1] > 0 THEN 1 ELSE IF y[1] < 0 THEN -1 ELSE 0)
      \* the product, reduced before it is multiplied out
      g1 == GCD(Abs(x[1]), y[2])
      g2 == GCD(Abs(y[1]), x[2])
  IN  IF x[2] # 0 /\ y[2] # 0
      THEN Rat((x[1] \div g1) * (y[1] \div g2), (x[2] \div g2) * (y[2] \div g1))
      ELSE <<sign, 0>>

\* x + y
NumberPlus(x, y) ==
  IF x[2] # 0 /\ y[2] # 0
  THEN LET g == GCD(x[2], y[2])
       IN  Rat(x[1] * (y[2] \div g) + y[1] * (x[2] \div g), (x[2] \div g) * y[2])
  ELSE IF x[2] # 0 THEN y
  ELSE IF y[2] # 0 THEN x
  ELSE IF x = y THEN x
  ELSE <<0, 0>>

\* x / y
NumberDiv(x, y) ==
  IF y[2] # 0 /\ y[1] # 0 THEN NumberTimes(x, Rat(y[2], y[1]))
  ELSE IF y[2] # 0 THEN NumberTimes(x, <<1, 0>>)
  ELSE IF x[2] # 0 /\ y[1] # 0 THEN Num(0)
  ELSE <<0, 0>>

\* x < y
NumberLess(x, y) ==
  IF x[2] # 0 /\ y[2] # 0 THEN Less(x, y)
  ELSE IF x = <<0, 0>> \/ y = <<0, 0>> THEN FALSE
  ELSE IF x[2] = 0 THEN x[1] < 0 /\ y # x
  ELSE y[1] > 0

(***************************************************************************)
(* Angles: each names a (cos, sin) pair; Math.cos and Math.sin read it.    *)
(***************************************************************************)
Angles == {"90", "180", "p", "-q"}

AngleTable(angle) ==
  CASE angle = "0"   -> <<Num(1), Num(0)>>
    [] angle = "90"  -> <<Num(0), Num(1)>>
    [] angle = "180" -> <<Num(-1), Num(0)>>
    [] angle = "-90" -> <<Num(0), Num(-1)>>
    [] angle = "p"   -> <<Rat(3, 5), Rat(4, 5)>>
    [] angle = "-q"  -> <<Rat(4, 5), Rat(-3, 5)>>

MathCos(angle) == AngleTable(angle)[1]

MathSin(angle) == AngleTable(angle)[2]

(***************************************************************************)
(* Outcomes of a call: a returned value or a thrown Error.                 *)
(***************************************************************************)
Throw(msg) == [throws |-> TRUE, error |-> msg]

Return(v) == [throws |-> FALSE, value |-> v]

(***************************************************************************)
(* Arrays.  A JavaScript array is a function from the keys that are set to *)
(* their values.  Keys 0..length-1 are its elements; a negative key is a   *)
(* property, which spread and map do not copy.  ArrayFrom builds the array *)
(* element by element, as the loops and copies of the source do.           *)
(***************************************************************************)
RECURSIVE ArrayFrom(_, _)
ArrayFrom(f, keys) ==
  IF keys = {} THEN <<>>
  ELSE LET k == CHOOSE x \in keys : TRUE
       IN  (k :> f[k]) @@ ArrayFrom(f, keys \ {k})

\* [...row]
Spread(row) == ArrayFrom(row, {j \in DOMAIN row : j >= 0})

(***************************************************************************)
(* VectorND                                                                *)
(***************************************************************************)
NewVectorND(components) ==
  [components |-> Spread(components), dimension |-> Cardinality(DOMAIN components)]

VectorND_zero(dimension) ==
  NewVectorND([i \in 0..(dimension - 1) |-> Num(0)])

VectorND_basis(dimension, axis) ==
  NewVectorND([i \in 0..(dimension - 1) |-> IF i = axis THEN Num(1) ELSE Num(0)])

VectorND_get(v, index) ==
  IF index \in DOMAIN v.components THEN v.components[index] ELSE Num(0)

Max(a, b) == IF a > b THEN a ELSE b

Min(a, b) == IF a < b THEN a ELSE b

\* adds over min(dimA, dimB) components
VectorND_addTruncating(this, other) ==
  LET minDim == Min(this.dimension, other.dimension)
  IN  NewVectorND([i \in 0..(minDim - 1) |->
                     Plus(VectorND_get(this, i), VectorND_get(other, i))])

VectorND_add(this, other) ==
  LET maxDim == Max(this.dimension, other.dimension)
  IN  NewVectorND([i \in 0..(maxDim - 1) |->
                     Plus(VectorND_get(this, i), VectorND_get(other, i))])

VectorND_subtract(this, other) ==
  LET maxDim == Max(this.dimension, other.dimension)
  IN  NewVectorND([i \in 0..(maxDim - 1) |->
                     Minus(VectorND_get(this, i), VectorND_get(other, i))])

\* the loop stops one component early
RECURSIVE DotLoopSkippingLast(_, _, _, _, _)
DotLoopSkippingLast(this, other, i, minDim, sum) ==
  IF i >= minDim - 1 THEN sum
  ELSE DotLoopSkippingLast(this, other, i + 1, minDim,
                           Plus(sum, Times(this.components[i], other.components[i])))

RECURSIVE DotLoop(_, _, _, _, _)
DotLoop(this, other, i, minDim, sum) ==
  IF i >= minDim THEN sum
  ELSE DotLoop(this, other, i + 1, minDim,
               Plus(sum, Times(this.components[i], other.components[i])))

VectorND_dot(this, other) ==
  DotLoop(this, other, 0, Min(this.dimension, other.dimension), Num(0))

VectorND_magnitudeSquared(this) == VectorND_dot(this, this)

VectorND_scale(this, scalar) ==
  NewVectorND([i \in DOMAIN this.components |-> Times(this.components[i], scalar)])

VectorND_magnitude(this) == MathSqrt(VectorND_magnitudeSquared(this))

\* the zero vector loses its dimension
VectorND_normalizeToEmpty(this) ==
  LET mag == VectorND_magnitude(this)
  IN  IF mag = Num(0) THEN VectorND_zero(0)
      ELSE VectorND_scale(this, Div(Num(1), mag))

VectorND_normalize(this) ==
  LET mag == VectorND_magnitude(this)
  IN  IF mag = Num(0) THEN VectorND_zero(this.dimension)
      ELSE VectorND_scale(this, Div(Num(1), mag))

\* keeps one component more
VectorND_truncateInclusive(this, newDimension) ==
  LET length == Cardinality(DOMAIN this.components)
      end == newDimension + 1
      final == IF end < 0 THEN Max(length + end, 0) ELSE Min(end, length)
  IN  NewVectorND(ArrayFrom(this.components, 0..(final - 1)))

\* this.components.slice(0, newDimension): a negative end counts from the
\* end of the array
VectorND_truncate(this, newDimension) ==
  LET length == Cardinality(DOMAIN this.components)
      end == newDimension
      final == IF end < 0 THEN Max(length + end, 0) ELSE Min(end, length)
  IN  NewVectorND(ArrayFrom(this.components, 0..(final - 1)))

VectorND_extend(this, newDimension) ==
  LET \* while (result.length < newDimension) result.push(0)
      RECURSIVE Loop(_)
      Loop(result) ==
        LET length == Cardinality(DOMAIN result)
        IN  IF length < newDimension
            THEN Loop(ArrayFrom([i \in 0..length |->
                                   IF i < length THEN result[i] ELSE Num(0)],
                                0..length))
            ELSE result
  IN  IF newDimension <= this.dimension THEN this
      ELSE NewVectorND(Loop(Spread(this.components)))

VectorND_projectOnto(this, other) ==
  LET otherMagSq == VectorND_magnitudeSquared(other)
  IN  IF otherMagSq = Num(0) THEN VectorND_zero(this.dimension)
      ELSE VectorND_scale(other, Div(VectorND_dot(this, other), otherMagSq))


(***************************************************************************)
(* MatrixND: data is an array of rows, each row an array of numbers.       *)
(***************************************************************************)
NewMatrixND(data) ==
  [data |-> ArrayFrom([i \in DOMAIN data |-> Spread(data[i])], DOMAIN data),
   size |-> Cardinality(DOMAIN data)]

MatrixND_identity(size) ==
  NewMatrixND([i \in 0..(size - 1) |->
                 [j \in 0..(size - 1) |-> IF j = i THEN Num(1) ELSE Num(0)]])

MatrixND_zero(size) ==
  NewMatrixND([i \in 0..(size - 1) |-> [j \in 0..(size - 1) |-> Num(0)]])

\* data[row][col] = value on a row that exists
Assign(data, row, col, value) ==
  [data EXCEPT ![row] = ArrayFrom([k \in (DOMAIN data[row]) \cup {col} |->
                                     IF k = col THEN value ELSE data[row][k]],
                                  (DOMAIN data[row]) \cup {col})]

\* sign slip: [axis1, axis2] = sin instead of -sin
MatrixND_rotationSameSign(size, axis1, axis2, angle) ==
  LET matrix == MatrixND_identity(size)
      cos == MathCos(angle)
      sin == MathSin(angle)
  IN  IF axis1 \notin DOMAIN matrix.data \/ axis2 \notin DOMAIN matrix.data
      THEN Throw("TypeError")
      ELSE Return([matrix EXCEPT !.data =
                     Assign(Assign(Assign(Assign(matrix.data, axis1, axis1, cos),
                                          axis1, axis2, sin),
                                   axis2, axis1, sin),
                            axis2, axis2, cos)])

MatrixND_rotation(size, axis1, axis2, angle) ==
  LET matrix == MatrixND_identity(size)
      cos == MathCos(angle)
      sin == MathSin(angle)
  IN  IF axis1 \notin DOMAIN matrix.data
      THEN Throw("TypeError")
      ELSE LET d1 == Assign(matrix.data, axis1, axis1, cos)
               d2 == Assign(d1, axis1, axis2, Neg(sin))
           IN  IF axis2 \notin DOMAIN matrix.data
               THEN Throw("TypeError")
               ELSE LET d3 == Assign(d2, axis2, axis1, sin)
                        d4 == Assign(d3, axis2, axis2, cos)
                    IN  Return([matrix EXCEPT !.data = d4])

MatrixND_get(this, row, col) ==
  IF row \in DOMAIN this.data /\ col \in DOMAIN this.data[row]
  THEN this.data[row][col]
  ELSE Num(0)

\* the receiver after set(row, col, value); set returns nothing
MatrixND_set(this, row, col, value) ==
  IF row \in DOMAIN this.data
  THEN [this EXCEPT !.data = Assign(this.data, row, col, value)]
  ELSE this

\* index slip: other.data[j][k] instead of other.data[k][j]
RECURSIVE MultiplyLoopTransposed(_, _, _, _, _, _)
MultiplyLoopTransposed(this, other, i, j, k, sum) ==
  IF k >= this.size THEN sum
  ELSE MultiplyLoopTransposed(this, other, i, j, k + 1,
                              Plus(sum, Times(this.data[i][k], other.data[j][k])))

RECURSIVE MultiplyLoop(_, _, _, _, _, _)
MultiplyLoop(this, other, i, j, k, sum) ==
  IF k >= this.size THEN sum
  ELSE MultiplyLoop(this, other, i, j, k + 1,
                    Plus(sum, Times(this.data[i][k], other.data[k][j])))

MatrixND_multiply(this, other) ==
  IF this.size # other.size
  THEN Throw("Matrix size mismatch")
  ELSE LET result == MatrixND_zero(this.size)
       IN  Return([result EXCEPT !.data =
                     ArrayFrom([i \in 0..(this.size - 1) |->
                                  ArrayFrom([j \in 0..(this.size - 1) |->
                                               MultiplyLoop(this, other, i, j, 0, Num(0))],
                                            0..(this.size - 1))],
                               0..(this.size - 1))])

RECURSIVE TransformLoop(_, _, _, _, _)
TransformLoop(this, vector, i, j, acc) ==
  IF j >= this.size THEN acc
  ELSE TransformLoop(this, vector, i, j + 1,
                     Plus(acc, Times(this.data[i][j], VectorND_get(vector, j))))

\* no dimension check: a short vector is zero-padded by get
MatrixND_transformUnchecked(this, vector) ==
  Return(NewVectorND([i \in 0..(this.size - 1) |->
                        TransformLoop(this, vector, i, 0, Num(0))]))

MatrixND_transform(this, vector) ==
  IF vector.dimension # this.size
  THEN Throw("Vector dimension doesn't match matrix size")
  ELSE Return(NewVectorND([i \in 0..(this.size - 1) |->
                             TransformLoop(this, vector, i, 0, Num(0))]))

MatrixND_transpose(this) ==
  LET result == MatrixND_zero(this.size)
  IN  [result EXCEPT !.data =
         ArrayFrom([i \in 0..(this.size - 1) |->
                      ArrayFrom([j \in 0..(this.size - 1) |-> this.data[j][i]],
                                0..(this.size - 1))],
                   0..(this.size - 1))]

MatrixND_clone(this) ==
  NewMatrixND([i \in DOMAIN this.data |-> Spread(this.data[i])])

MatrixND_scale(this, scalar) ==
  NewMatrixND([i \in DOMAIN this.data |->
                 [k \in DOMAIN Spread(this.data[i]) |->
                    Times(this.data[i][k], scalar)]])

(***************************************************************************)
(* RotationND                                                              *)
(***************************************************************************)
\* stores the axes in the order given
NewRotationNDUnordered(dimension, axis1, axis2, angle) ==
  IF axis1 = axis2
  THEN Throw("Rotation plane must be defined by two different axes")
  ELSE IF axis1 >= dimension \/ axis2 >= dimension
  THEN Throw("Axes out of bounds for dimension")
  ELSE Return([dimension |-> dimension, axis1 |-> axis1, axis2 |-> axis2,
               angle |-> angle])

NewRotationND(dimension, axis1, axis2, angle) ==
  IF axis1 = axis2
  THEN Throw("Rotation plane must be defined by two different axes")
  ELSE IF axis1 >= dimension \/ axis2 >= dimension
  THEN Throw("Axes out of bounds for dimension")
  ELSE Return([dimension |-> dimension,
               axis1 |-> Min(axis1, axis2),
               axis2 |-> Max(axis1, axis2),
               angle |-> angle])

RotationND_toMatrix(this) ==
  MatrixND_rotation(this.dimension, this.axis1, this.axis2, this.angle)

RotationND_apply(this, vector) ==
  IF vector.dimension # this.dimension
  THEN Throw("Vector dimension doesn't match rotation dimension")
  ELSE LET m == RotationND_toMatrix(this)
       IN  IF m.throws THEN m ELSE MatrixND_transform(m.value, vector)

\* right-multiplies: result = result.multiply(rotation.toMatrix())
ComposeStepSwapped(rotation, result) ==
  LET m == MatrixND_rotation(rotation.dimension, rotation.axis1, rotation.axis2,
                             rotation.angle)
  IN  IF m.throws THEN m ELSE MatrixND_multiply(result, m.value)

\* result = rotation.toMatrix().multiply(result)
ComposeStep(rotation, result) ==
  LET m == RotationND_toMatrix(rotation)
  IN  IF m.throws THEN m ELSE MatrixND_multiply(m.value, result)

\* skips a rotation of another dimension instead of throwing
RECURSIVE ComposeLoopSkipping(_, _, _, _)
ComposeLoopSkipping(rotations, i, dimension, result) ==
  IF i > Len(rotations) THEN Return(result)
  ELSE IF rotations[i].dimension # dimension
  THEN ComposeLoopSkipping(rotations, i + 1, dimension, result)
  ELSE LET next == ComposeStep(rotations[i], result)
       IN  IF next.throws THEN next
           ELSE ComposeLoopSkipping(rotations, i + 1, dimension, next.value)

RECURSIVE ComposeLoop(_, _, _, _)
ComposeLoop(rotations, i, dimension, result) ==
  IF i > Len(rotations) THEN Return(result)
  ELSE IF rotations[i].dimension # dimension
  THEN Throw("All rotations must have the same dimension")
  ELSE LET next == ComposeStep(rotations[i], result)
       IN  IF next.throws THEN next
           ELSE ComposeLoop(rotations, i + 1, dimension, next.value)

RotationND_compose(rotations) ==
  IF Len(rotations) = 0
  THEN Throw("Cannot compose empty rotation list")
  ELSE LET dimension == rotations[1].dimension
       IN  ComposeLoop(rotations, 1, dimension, MatrixND_identity(dimension))

axisNames == <<"X", "Y", "Z", "W", "V", "U">>

RECURSIVE PlanesInner(_, _, _, _)
PlanesInner(dimension, i, j, planes) ==
  IF j >= dimension THEN planes
  ELSE PlanesInner(dimension, i, j + 1, Append(planes, <<i, j>>))

\* inner loop starts at j = i instead of j = i + 1
RECURSIVE PlanesOuterFromI(_, _, _)
PlanesOuterFromI(dimension, i, planes) ==
  IF i >= dimension THEN planes
  ELSE PlanesOuterFromI(dimension, i + 1, PlanesInner(dimension, i, i, planes))

RECURSIVE PlanesOuter(_, _, _)
PlanesOuter(dimension, i, planes) ==
  IF i >= dimension THEN planes
  ELSE PlanesOuter(dimension, i + 1, PlanesInner(dimension, i, i + 1, planes))

getRotationPlanes(dimension) == PlanesOuter(dimension, 0, <<>>)

AxisName(i) ==
  IF i + 1 \in DOMAIN axisNames THEN axisNames[i + 1] ELSE "A" \o ToString(i)

getRotationPlaneNames(dimension) ==
  LET planes == getRotationPlanes(dimension)
  IN  [p \in DOMAIN planes |-> AxisName(planes[p][1]) \o AxisName(planes[p][2])]

(***************************************************************************)
(* Geometry generators (polytopes.ts).  A GeometryND is a record: vertices *)
(* is an array of VectorND, edges and faces are the lists of index tuples  *)
(* in the order they were pushed.                                          *)
(***************************************************************************)
\* for (x = lo; x <= hi; x++) { ... push ... }: pushed[x] is the list that
\* iteration x pushed, the result is what the loop pushed, in order
RECURSIVE ForEach(_, _, _)
ForEach(lo, hi, pushed) ==
  IF lo > hi THEN <<>>
  ELSE IF lo = hi THEN pushed[lo]
  ELSE LET mid == (lo + hi) \div 2
       IN  ForEach(lo, mid, pushed) \o ForEach(mid + 1, hi, pushed)

\* a list as an array
ArrayOf(list) == [i \in 0..(Len(list) - 1) |-> list[i + 1]]

RECURSIVE Pow2(_)
Pow2(n) == IF n <= 0 THEN 1 ELSE 2 * Pow2(n - 1)

\* (i >> d) & 1
Bit(i, d) == (i \div Pow2(d)) % 2

\* a ^ b and a & b on the non-negative integers
RECURSIVE BitXor(_, _)
BitXor(a, b) ==
  IF a = 0 THEN b
  ELSE IF b = 0 THEN a
  ELSE (((a % 2) + (b % 2)) % 2) + 2 * BitXor(a \div 2, b \div 2)

RECURSIVE BitAnd(_, _)
BitAnd(a, b) ==
  IF a = 0 \/ b = 0 THEN 0
  ELSE ((a % 2) * (b % 2)) + 2 * BitAnd(a \div 2, b \div 2)

\* names[dimension] ?? `${dimension}${suffix}`
NameOf(names, dimension, suffix) ==
  IF dimension + 1 \in DOMAIN names THEN names[dimension + 1]
  ELSE ToString(dimension) \o suffix

\* the inner loop starts at j = i
HypercubeEdgesFromSelf(vertexCount) ==
  ForEach(0, vertexCount - 1, [i \in 0..(vertexCount - 1) |->
    ForEach(i, vertexCount - 1, [j \in i..(vertexCount - 1) |->
      LET xor == BitXor(i, j)
      IN  IF BitAnd(xor, xor - 1) = 0 THEN << <<i, j>> >> ELSE <<>>])])

HypercubeEdges(vertexCount) ==
  ForEach(0, vertexCount - 1, [i \in 0..(vertexCount - 1) |->
    ForEach(i + 1, vertexCount - 1, [j \in (i + 1)..(vertexCount - 1) |->
      LET xor == BitXor(i, j)
      IN  IF BitAnd(xor, xor - 1) = 0 THEN << <<i, j>> >> ELSE <<>>])])

\* the corners of a face in the order none, axis1, axis2, both
HypercubeFacesRowByRow(dimension) ==
  LET axes == 0..(dimension - 1)
      last == Pow2(dimension) - 1
  IN  ForEach(0, dimension - 1, [axis1 \in axes |->
        ForEach(axis1 + 1, dimension - 1, [axis2 \in (axis1 + 1)..(dimension - 1) |->
          ForEach(0, last, [base \in 0..last |->
            IF Bit(base, axis1) = 0 /\ Bit(base, axis2) = 0
            THEN << <<base, base + Pow2(axis1), base + Pow2(axis2),
                      base + Pow2(axis1) + Pow2(axis2)>> >>
            ELSE <<>>])])])

\* a face per pair of axes and per combination of the other axes' bits; its
\* corner sets bit axis1 for corners 1, 2 and bit axis2 for corners 2, 3
HypercubeFaces(dimension) ==
  LET \* vertexIndex |= (1 << axis), on an index whose bit axis is clear
      SetBit(vertexIndex, axis) ==
        IF Bit(vertexIndex, axis) = 1 THEN vertexIndex ELSE vertexIndex + Pow2(axis)
      RECURSIVE Others(_, _, _, _)
      Others(otherAxes, combo, k, vertexIndex) ==
        IF k > Len(otherAxes) THEN vertexIndex
        ELSE Others(otherAxes, combo, k + 1,
                    IF Bit(combo, k - 1) = 1 THEN SetBit(vertexIndex, otherAxes[k])
                    ELSE vertexIndex)
      Corner(corner, axis1, axis2, otherAxes, combo) ==
        LET first == IF corner = 1 \/ corner = 2 THEN SetBit(0, axis1) ELSE 0
            second == IF corner = 2 \/ corner = 3 THEN SetBit(first, axis2) ELSE first
        IN  Others(otherAxes, combo, 1, second)
      axes == 0..(dimension - 1)
  IN  IF dimension >= 2
      THEN ForEach(0, dimension - 1, [axis1 \in axes |->
             ForEach(axis1 + 1, dimension - 1, [axis2 \in (axis1 + 1)..(dimension - 1) |->
               LET otherAxes == ForEach(0, dimension - 1, [d \in axes |->
                                  IF d # axis1 /\ d # axis2 THEN <<d>> ELSE <<>>])
                   last == Pow2(Len(otherAxes)) - 1
               IN  ForEach(0, last, [combo \in 0..last |->
                     << [corner \in 1..4 |->
                           Corner(corner - 1, axis1, axis2, otherAxes, combo)] >>])])])
      ELSE <<>>

createHypercube(dimension, size) ==
  LET vertexCount == Pow2(dimension)
  IN  [name |-> NameOf(<<"Point", "Segment", "Square", "Cube", "Tesseract", "5-cube",
                         "6-cube", "7-cube">>, dimension, "-cube"),
       dimension |-> dimension,
       vertices |-> [i \in 0..(vertexCount - 1) |->
                       NewVectorND([d \in 0..(dimension - 1) |->
                                      IF Bit(i, d) = 0 THEN Neg(size) ELSE size])],
       edges |-> HypercubeEdges(vertexCount),
       faces |-> HypercubeFaces(dimension)]

\* A number coef * sqrt(radicand), for the coordinates that are not rational.
Surd(coef, radicand) == [coef |-> coef, radicand |-> radicand]

\* the loops stop one vertex early
SimplexEdgesExclusive(dimension) ==
  ForEach(0, dimension - 1, [i \in 0..(dimension - 1) |->
    ForEach(i + 1, dimension - 1, [j \in (i + 1)..(dimension - 1) |-> << <<i, j>> >>])])

SimplexEdges(dimension) ==
  ForEach(0, dimension, [i \in 0..dimension |->
    ForEach(i + 1, dimension, [j \in (i + 1)..dimension |-> << <<i, j>> >>])])

\* Coordinate d of a simplex vertex is a rational multiple of
\* sqrt((d + 1) * (d + 2)); until the last scaling the vertices are held as
\* vectors of those multiples, on which add, subtract and scale act as on the
\* coordinates themselves.
SimplexVertices(dimension, size) ==
  LET Radicand(d) == Num((d + 1) * (d + 2))
      \* -1 / sqrt((d+1)(d+2)), sqrt((d+1) / (d+2)) or 0, over sqrt((d+1)(d+2))
      Coords(i) ==
        [d \in 0..(dimension - 1) |->
           IF d < i THEN Rat(-1, (d + 1) * (d + 2))
           ELSE IF d = i /\ d < dimension THEN Rat(1, d + 2)
           ELSE Num(0)]
      vertices == [i \in 0..dimension |-> VectorND_scale(NewVectorND(Coords(i)), size)]
      \* vertices.reduce((acc, v) => acc.add(v), VectorND.zero(dimension))
      RECURSIVE Sum(_, _)
      Sum(i, acc) ==
        IF i > dimension THEN acc ELSE Sum(i + 1, VectorND_add(acc, vertices[i]))
      center == VectorND_scale(Sum(0, VectorND_zero(dimension)), Rat(1, dimension + 1))
      centeredVertices == [i \in 0..dimension |-> VectorND_subtract(vertices[i], center)]
      \* v.magnitude() squared
      MagnitudeSquared(v) ==
        VectorND_dot(v, NewVectorND([d \in DOMAIN v.components |->
                                       Times(v.components[d], Radicand(d))]))
      distancesSq == {MagnitudeSquared(centeredVertices[i]) : i \in 0..dimension}
      \* maxDist = sqrt(maxDistSq), and size / maxDist = (size / maxDistSq) * maxDist
      maxDistSq == CHOOSE x \in distancesSq : \A y \in distancesSq : ~Less(x, y)
  IN  [i \in 0..dimension |->
         NewVectorND([d \in 0..(dimension - 1) |->
                        Surd(Times(centeredVertices[i].components[d], Div(size, maxDistSq)),
                             Times(maxDistSq, Radicand(d)))])]

createSimplex(dimension, size) ==
  [name |-> NameOf(<<"Point", "Segment", "Triangle", "Tetrahedron", "5-cell",
                     "5-simplex", "6-simplex">>, dimension, "-simplex"),
   dimension |-> dimension,
   vertices |-> SimplexVertices(dimension, size),
   edges |-> SimplexEdges(dimension),
   faces |-> ForEach(0, dimension, [i \in 0..dimension |->
               ForEach(i + 1, dimension, [j \in (i + 1)..dimension |->
                 ForEach(j + 1, dimension, [k \in (j + 1)..dimension |->
                   << <<i, j, k>> >>])])])]

\* opposite vertices are joined too
OrthoplexEdgesWithOpposites(length) ==
  ForEach(0, length - 1, [i \in 0..(length - 1) |->
    ForEach(i + 1, length - 1, [j \in (i + 1)..(length - 1) |-> << <<i, j>> >>])])

OrthoplexEdges(length) ==
  ForEach(0, length - 1, [i \in 0..(length - 1) |->
    ForEach(i + 1, length - 1, [j \in (i + 1)..(length - 1) |->
      LET axisI == i \div 2
          axisJ == j \div 2
      IN  IF axisI # axisJ THEN << <<i, j>> >> ELSE <<>>])])

\* vertices 2d and 2d + 1 are coordsPos and coordsNeg of axis d; a face takes
\* one vertex of each of three axes a1 < a2 < a3
createOrthoplex(dimension, size) ==
  LET axes == 0..(dimension - 1)
      signs == 0..1
  IN  [name |-> NameOf(<<"Point", "Segment", "Square", "Octahedron", "16-cell",
                         "5-orthoplex">>, dimension, "-orthoplex"),
       dimension |-> dimension,
       vertices |-> [v \in 0..(2 * dimension - 1) |->
                       NewVectorND([k \in axes |->
                                      IF k # v \div 2 THEN Num(0)
                                      ELSE IF v % 2 = 0 THEN size ELSE Neg(size)])],
       edges |-> OrthoplexEdges(2 * dimension),
       faces |-> ForEach(0, dimension - 1, [a1 \in axes |->
                   ForEach(a1 + 1, dimension - 1, [a2 \in (a1 + 1)..(dimension - 1) |->
                     ForEach(a2 + 1, dimension - 1, [a3 \in (a2 + 1)..(dimension - 1) |->
                       ForEach(0, 1, [s1 \in signs |->
                         ForEach(0, 1, [s2 \in signs |->
                           ForEach(0, 1, [s3 \in signs |->
                             << <<a1 * 2 + s1, a2 * 2 + s2, a3 * 2 + s3>> >>])])])])])])]

\* new Set(edges.map(([a, b]) => `${Math.min(a,b)}-${Math.max(a,b)}`))
EdgeSet(edges) == {<<Min(e[1], e[2]), Max(e[1], e[2])>> : e \in {edges[k] : k \in DOMAIN edges}}

\* vertices 0..7 are -size then +size on each axis, vertices 8..23 are
\* (+-0.5 * size, ...) by the bits of i, scaled by 2; an edge joins the pairs
\* i < j whose squared distance is within tolerance of edgeLengthSq
create24Cell(size) ==
  LET AxisVertex(v) ==
        NewVectorND([k \in 0..3 |->
                       IF k # v \div 2 THEN Num(0)
                       ELSE Times(IF v % 2 = 0 THEN Num(-1) ELSE Num(1), size)])
      HalfVertex(i) ==
        NewVectorND([d \in 0..3 |->
                       IF Bit(i, d) = 0 THEN Times(Rat(-1, 2), size)
                       ELSE Times(Rat(1, 2), size)])
      vertices == [v \in 0..23 |->
                     IF v < 8 THEN AxisVertex(v)
                     ELSE VectorND_scale(HalfVertex(v - 8), Num(2))]
      length == Cardinality(DOMAIN vertices)
      edgeLengthSq == Times(Times(Num(2), size), size)
      tolerance == Times(Times(Rat(1, 100), size), size)
      edges ==
        ForEach(0, length - 1, [i \in 0..(length - 1) |->
          ForEach(i + 1, length - 1, [j \in (i + 1)..(length - 1) |->
            LET distSq == VectorND_magnitudeSquared(VectorND_subtract(vertices[i],
                                                                      vertices[j]))
            IN  IF Less(MathAbs(Minus(distSq, edgeLengthSq)), tolerance)
                THEN << <<i, j>> >> ELSE <<>>])])
      edgeSet == EdgeSet(edges)
  IN  [name |-> "24-cell",
       dimension |-> 4,
       vertices |-> vertices,
       edges |-> edges,
       faces |-> ForEach(0, length - 1, [i \in 0..(length - 1) |->
                   ForEach(i + 1, length - 1, [j \in (i + 1)..(length - 1) |->
                     ForEach(j + 1, length - 1, [k \in (j + 1)..(length - 1) |->
                       IF <<i, j>> \in edgeSet /\ <<i, k>> \in edgeSet
                          /\ <<j, k>> \in edgeSet
                       THEN << <<i, j, k>> >> ELSE <<>>])])])]

(***************************************************************************)
(* The numbers a + b * sqrt(5), a and b rational, as pairs <<a, b>>: the   *)
(* coordinates of the 600-cell, which are built from the golden ratio.     *)
(***************************************************************************)
Rational(q) == <<q, Num(0)>>

Root5Plus(x, y) == <<Plus(x[1], y[1]), Plus(x[2], y[2])>>

Root5Minus(x, y) == <<Minus(x[1], y[1]), Minus(x[2], y[2])>>

Root5Times(x, y) ==
  <<Plus(Times(x[1], y[1]), Times(Num(5), Times(x[2], y[2]))),
    Plus(Times(x[1], y[2]), Times(x[2], y[1]))>>

\* x / y for y # 0: x * (c - d sqrt 5) / (c^2 - 5 d^2)
Root5Div(x, y) ==
  LET norm == Minus(Times(y[1], y[1]), Times(Num(5), Times(y[2], y[2])))
      top == Root5Times(x, <<y[1], Neg(y[2])>>)
  IN  <<Div(top[1], norm), Div(top[2], norm)>>

\* the sign of a + b sqrt(5)
Root5Sign(x) ==
  LET Sign(n) == IF n > 0 THEN 1 ELSE IF n < 0 THEN -1 ELSE 0
      \* r / d against sqrt(5) - 2 = 1 / (4 + (sqrt(5) - 2)), for 0 <= r < d, by
      \* the continued fraction: -1 when smaller, 1 when larger
      RECURSIVE CompareFraction(_, _)
      CompareFraction(r, d) ==
        IF r = 0 THEN -1
        ELSE IF d \div r > 4 THEN -1
        ELSE IF d \div r < 4 THEN 1
        ELSE -CompareFraction(d - 4 * r, r)
      \* the rational t >= 0 against sqrt(5)
      CompareRoot5(t) ==
        IF t[1] \div t[2] < 2 THEN -1
        ELSE IF t[1] \div t[2] > 2 THEN 1
        ELSE CompareFraction(t[1] - 2 * t[2], t[2])
      a == Sign(x[1][1])
      b == Sign(x[2][1])
  IN  IF b = 0 THEN a
      ELSE IF a = 0 \/ a = b THEN b
      ELSE a * CompareRoot5(Div(MathAbs(x[1]), MathAbs(x[2])))

Root5Less(x, y) == Root5Sign(Root5Minus(x, y)) < 0

Root5Abs(x) == IF Root5Sign(x) < 0 THEN <<Neg(x[1]), Neg(x[2])>> ELSE x

\* c.toFixed(6): the sign and the digits, as the integer nearest to
\* |c| * 10^6 (the larger one on a tie)
ToFixed6(c) ==
  LET \* the integer n with n <= x < n + 1, stepping from the estimate n
      RECURSIVE FloorFrom(_, _)
      FloorFrom(x, n) ==
        IF Root5Less(x, Rational(Num(n))) THEN FloorFrom(x, n - 1)
        ELSE IF ~Root5Less(x, Rational(Num(n + 1))) THEN FloorFrom(x, n + 1)
        ELSE n
      \* floor for division of integers of either sign
      FloorDiv(n, d) == IF n >= 0 THEN n \div d ELSE -((-n + d - 1) \div d)
      \* Math.floor(x), x = a + b sqrt(5): estimated with sqrt(5) ~ 682 / 305
      Floor(x) ==
        LET estimate == Plus(x[1], Times(x[2], Rat(682, 305)))
        IN  FloorFrom(x, FloorDiv(estimate[1], estimate[2]))
      magnitude == Root5Abs(c)
      scaled == <<Times(magnitude[1], Num(1000000)), Times(magnitude[2], Num(1000000))>>
  IN  [negative |-> Root5Sign(c) < 0,
       digits |-> Floor(Root5Plus(scaled, Rational(Rat(1, 2))))]

\* phi = (1 + Math.sqrt(5)) / 2
GoldenRatio ==
  Root5Div(Root5Plus(Rational(Num(1)), <<Num(0), Num(1)>>), Rational(Num(2)))

\* the vertices pushed before the duplicates are removed, in order: axis,
\* half, then the sign changes of the even permutations
Cell600Pushed(size) ==
  LET \* [phi / 2 * size, 0.5 * size, 1 / (2 * phi) * size, 0]
      values ==
        <<Root5Times(Root5Div(GoldenRatio, Rational(Num(2))), Rational(size)),
          Rational(Times(Rat(1, 2), size)),
          Root5Times(Root5Div(Rational(Num(1)), Root5Times(Rational(Num(2)), GoldenRatio)),
                     Rational(size)),
          Rational(Num(0))>>
      permutations ==
        << <<0, 1, 2, 3>>, <<0, 2, 3, 1>>, <<0, 3, 1, 2>>,
           <<1, 0, 3, 2>>, <<1, 2, 0, 3>>, <<1, 3, 2, 0>>,
           <<2, 0, 1, 3>>, <<2, 1, 3, 0>>, <<2, 3, 0, 1>>,
           <<3, 0, 2, 1>>, <<3, 1, 0, 2>>, <<3, 2, 1, 0>> >>
      axis == ForEach(0, 3, [d \in 0..3 |->
                ForEach(1, 2, [s \in 1..2 |->
                  << NewVectorND([k \in 0..3 |->
                        IF k # d THEN Rational(Num(0))
                        ELSE Rational(Times(IF s = 1 THEN Num(-1) ELSE Num(1), size))]) >>])])
      half == ForEach(0, 15, [i \in 0..15 |->
                << NewVectorND([d \in 0..3 |->
                      IF Bit(i, d) = 0 THEN Rational(Times(Rat(-1, 2), size))
                      ELSE Rational(Times(Rat(1, 2), size))]) >>])
      permuted == ForEach(1, Len(permutations), [p \in 1..Len(permutations) |->
                    ForEach(0, 7, [signs \in 0..7 |->
                      LET coords == [i \in 0..3 |->
                                       Root5Times(values[permutations[p][i + 1] + 1],
                                                  Rational(IF Bit(signs, i) = 0
                                                           THEN Num(1) ELSE Num(-1)))]
                      IN  IF \E i \in 0..3 : coords[i] # Rational(Num(0))
                          THEN << NewVectorND(coords) >> ELSE <<>>])])
  IN  axis \o half \o permuted

\* the vertices whose toFixed(6) key no earlier vertex has
UniqueVertices(pushed) ==
  LET \* v.components.map(c => c.toFixed(6)).join(',')
      keys == ForEach(1, Len(pushed), [k \in 1..Len(pushed) |->
                << [i \in DOMAIN pushed[k].components |->
                      ToFixed6(pushed[k].components[i])] >>])
  IN  ForEach(1, Len(pushed), [k \in 1..Len(pushed) |->
        IF \E j \in 1..(k - 1) : keys[j] = keys[k] THEN <<>> ELSE << pushed[k] >>])

\* a.subtract(b).magnitudeSquared() on these numbers decides the edges
Cell600Edges(vertices, edgeLengthSq, tolerance) ==
  LET length == Cardinality(DOMAIN vertices)
      DistanceSquared(a, b) ==
        LET diff == [i \in 0..(Max(a.dimension, b.dimension) - 1) |->
                       Root5Minus(IF i < a.dimension THEN a.components[i]
                                  ELSE Rational(Num(0)),
                                  IF i < b.dimension THEN b.components[i]
                                  ELSE Rational(Num(0)))]
            RECURSIVE Sum(_, _)
            Sum(i, sum) ==
              IF i \notin DOMAIN diff THEN sum
              ELSE Sum(i + 1, Root5Plus(sum, Root5Times(diff[i], diff[i])))
        IN  Sum(0, Rational(Num(0)))
  IN  ForEach(0, length - 1, [i \in 0..(length - 1) |->
        ForEach(i + 1, length - 1, [j \in (i + 1)..(length - 1) |->
          LET distSq == DistanceSquared(vertices[i], vertices[j])
          IN  IF Root5Less(Root5Abs(Root5Minus(distSq, edgeLengthSq)), tolerance)
              THEN << <<i, j>> >> ELSE <<>>])])

Cell600Faces(length, edgeSet) ==
  ForEach(0, length - 1, [i \in 0..(length - 1) |->
    ForEach(i + 1, length - 1, [j \in (i + 1)..(length - 1) |->
      IF <<i, j>> \notin edgeSet THEN <<>>
      ELSE ForEach(j + 1, length - 1, [k \in (j + 1)..(length - 1) |->
             IF <<i, k>> \in edgeSet /\ <<j, k>> \in edgeSet
             THEN << <<i, j, k>> >> ELSE <<>>])])])

create600Cell(size) ==
  LET uniqueVertices == ArrayOf(UniqueVertices(Cell600Pushed(size)))
      edgeLength == Root5Div(Rational(size), GoldenRatio)
      edgeLengthSq == Root5Times(edgeLength, edgeLength)
      tolerance == Rational(Times(Times(Rat(1, 100), size), size))
      edges == Cell600Edges(uniqueVertices, edgeLengthSq, tolerance)
  IN  [name |-> "600-cell",
       dimension |-> 4,
       vertices |-> uniqueVertices,
       edges |-> edges,
       faces |-> Cell600Faces(Cardinality(DOMAIN uniqueVertices), EdgeSet(edges))]

(***************************************************************************)
(* Coordinates on circles.  Math.cos and Math.sin of a rational multiple   *)
(* of pi are kept as terms, and a coordinate is the product of a scale     *)
(* (coef * sqrt(radicand)) and such terms.                                 *)
(***************************************************************************)
Cosine(piTimes) == [fn |-> "cos", piTimes |-> piTimes]

Sine(piTimes) == [fn |-> "sin", piTimes |-> piTimes]

Product(scale, factors) == [scale |-> scale, factors |-> factors]

\* the grid point (theta, phi) on two circles of radius r
GridVertices(majorSegments, minorSegments, r) ==
  ArrayOf(ForEach(0, majorSegments - 1, [i \in 0..(majorSegments - 1) |->
    LET theta == Rat(2 * i, majorSegments)
    IN  ForEach(0, minorSegments - 1, [j \in 0..(minorSegments - 1) |->
          LET phi == Rat(2 * j, minorSegments)
          IN  << NewVectorND([k \in 0..3 |->
                    CASE k = 0 -> Product(r, <<Cosine(theta)>>)
                      [] k = 1 -> Product(r, <<Sine(theta)>>)
                      [] k = 2 -> Product(r, <<Cosine(phi)>>)
                      [] k = 3 -> Product(r, <<Sine(phi)>>)]) >>])]))

\* the neighbours are not wrapped around
GridEdgesUnwrapped(majorSegments, minorSegments) ==
  ForEach(0, majorSegments - 1, [i \in 0..(majorSegments - 1) |->
    LET ni == i + 1
    IN  ForEach(0, minorSegments - 1, [j \in 0..(minorSegments - 1) |->
          LET nj == j + 1
              idx == i * minorSegments + j
              idxRight == i * minorSegments + nj
              idxDown == ni * minorSegments + j
          IN  << <<idx, idxRight>>, <<idx, idxDown>> >>])])

GridEdges(majorSegments, minorSegments) ==
  ForEach(0, majorSegments - 1, [i \in 0..(majorSegments - 1) |->
    LET ni == (i + 1) % majorSegments
    IN  ForEach(0, minorSegments - 1, [j \in 0..(minorSegments - 1) |->
          LET nj == (j + 1) % minorSegments
              idx == i * minorSegments + j
              idxRight == i * minorSegments + nj
              idxDown == ni * minorSegments + j
          IN  << <<idx, idxRight>>, <<idx, idxDown>> >>])])

\* only the first triangle of each cell is pushed
GridFacesOnePerCell(majorSegments, minorSegments) ==
  ForEach(0, majorSegments - 1, [i \in 0..(majorSegments - 1) |->
    LET ni == (i + 1) % majorSegments
    IN  ForEach(0, minorSegments - 1, [j \in 0..(minorSegments - 1) |->
          LET nj == (j + 1) % minorSegments
              idx == i * minorSegments + j
              idxRight == i * minorSegments + nj
              idxDiag == ni * minorSegments + nj
          IN  << <<idx, idxRight, idxDiag>> >>])])

GridFaces(majorSegments, minorSegments) ==
  ForEach(0, majorSegments - 1, [i \in 0..(majorSegments - 1) |->
    LET ni == (i + 1) % majorSegments
    IN  ForEach(0, minorSegments - 1, [j \in 0..(minorSegments - 1) |->
          LET nj == (j + 1) % minorSegments
              idx == i * minorSegments + j
              idxRight == i * minorSegments + nj
              idxDown == ni * minorSegments + j
              idxDiag == ni * minorSegments + nj
          IN  << <<idx, idxRight, idxDiag>>, <<idx, idxDiag, idxDown>> >>])])

\* r = size / Math.sqrt(2) = (size / 2) * sqrt(2)
createCliffordTorus(majorSegments, minorSegments, size) ==
  [name |-> "Clifford Torus",
   dimension |-> 4,
   vertices |-> GridVertices(majorSegments, minorSegments,
                             Surd(Div(size, Num(2)), Num(2))),
   edges |-> GridEdges(majorSegments, minorSegments),
   faces |-> GridFaces(majorSegments, minorSegments)]

createDuocylinder(segments, size) ==
  [name |-> "Duocylinder",
   dimension |-> 4,
   vertices |-> GridVertices(segments, segments, Surd(size, Num(1))),
   edges |-> GridEdges(segments, segments),
   faces |-> GridFaces(segments, segments)]

\* the apex, then for each ring the points (theta, phi) of a sphere of radius
\* r at height w; j runs while j < segments / 2
HyperconeVertices(segments, rings, size) ==
  LET \* a rational coordinate
      Plain(q) == Product(Surd(q, Num(1)), <<>>)
      height == Times(size, Rat(3, 2))
      apex == NewVectorND([k \in 0..3 |-> IF k = 3 THEN Plain(height) ELSE Plain(Num(0))])
      lastJ == ((segments + 1) \div 2) - 1
      layers ==
        ForEach(1, rings, [ring \in 1..rings |->
          LET t == Rat(ring, rings)
              r == Surd(Times(size, t), Num(1))
              w == Times(height, Minus(Num(1), t))
          IN  ForEach(0, segments - 1, [i \in 0..(segments - 1) |->
                LET theta == Rat(2 * i, segments)
                IN  ForEach(0, lastJ, [j \in 0..lastJ |->
                      LET phi == Div(Num(j), Rat(segments, 2))
                      IN  << NewVectorND([k \in 0..3 |->
                                CASE k = 0 -> Product(r, <<Sine(phi), Cosine(theta)>>)
                                  [] k = 1 -> Product(r, <<Sine(phi), Sine(theta)>>)
                                  [] k = 2 -> Product(r, <<Cosine(phi)>>)
                                  [] k = 3 -> Plain(w)]) >>])])])
  IN  ArrayOf(<<apex>> \o layers)

createHypercone(segments, rings, size) ==
  LET vertices == HyperconeVertices(segments, rings, size)
      length == Cardinality(DOMAIN vertices)
      firstRingSize == segments * (segments \div 2)
      \* for (i = 1; i <= firstRingSize && i < length; i++)
      lastApex == Min(firstRingSize, length - 1)
      \* the last i of: i < firstRingSize && ringStart + i < length &&
      \* nextRingStart + i < length
      Last(ringStart, nextRingStart) ==
        Min(firstRingSize - 1, Min(length - 1 - ringStart, length - 1 - nextRingStart))
      \* what the loop over the rings pushes: to edges, or else to faces
      Rings(toEdges) ==
        ForEach(0, rings - 2, [ring \in 0..(rings - 2) |->
          LET ringStart == 1 + ring * firstRingSize
              nextRingStart == ringStart + firstRingSize
              last == Last(ringStart, nextRingStart)
          IN  ForEach(0, last, [i \in 0..last |->
                LET curr == ringStart + i
                    next == ringStart + ((i + 1) % firstRingSize)
                    currDown == nextRingStart + i
                IN  IF toEdges
                    THEN (IF curr < length /\ currDown < length
                          THEN << <<curr, currDown>> >> ELSE <<>>)
                           \o (IF curr < length /\ next < length
                               THEN << <<curr, next>> >> ELSE <<>>)
                    ELSE IF curr < length /\ next < length /\ currDown < length
                         THEN << <<curr, next, currDown>> >> ELSE <<>>])])
  IN  [name |-> "Hypercone",
       dimension |-> 4,
       vertices |-> vertices,
       edges |-> ForEach(1, lastApex, [i \in 1..lastApex |-> << <<0, i>> >>])
                   \o Rings(TRUE),
       \* i % firstRingSize + 1 is at least 1, so || 1 never applies
       faces |-> ForEach(1, lastApex, [i \in 1..lastApex |->
                   << <<0, i, (i % firstRingSize) + 1>> >>])
                   \o Rings(FALSE)]

\* two sets of five decagons, the second in the ZW plane; the edges within
\* each set, then the edges across; the faces within each set
createGrandAntiprism(size) ==
  LET Plain(q) == Product(Surd(q, Num(1)), <<>>)
      vertices ==
        ArrayOf(ForEach(0, 1, [ring \in 0..1 |->
          ForEach(0, 4, [layer \in 0..4 |->
            ForEach(0, 9, [i \in 0..9 |->
              LET angle == Rat(2 * i, 10)
                  r == Surd(Times(size, Plus(Rat(1, 2), Times(Rat(2, 10), Num(layer)))),
                            Num(1))
                  offset == Times(Times(Num(layer), Rat(3, 10)), size)
                  level == Plain(Minus(offset, Times(size, Rat(6, 10))))
              IN  << NewVectorND([k \in 0..3 |->
                        IF ring = 0
                        THEN CASE k = 0 -> Product(r, <<Cosine(angle)>>)
                               [] k = 1 -> Product(r, <<Sine(angle)>>)
                               [] k = 2 -> level
                               [] k = 3 -> Plain(Num(0))
                        ELSE CASE k = 0 -> Plain(Num(0))
                               [] k = 1 -> level
                               [] k = 2 -> Product(r, <<Cosine(angle)>>)
                               [] k = 3 -> Product(r, <<Sine(angle)>>)]) >>])])]))
      ringEdges ==
        ForEach(0, 1, [ring \in 0..1 |->
          LET base == ring * 50
          IN  ForEach(0, 4, [layer \in 0..4 |->
                LET layerBase == base + layer * 10
                IN  ForEach(0, 9, [i \in 0..9 |->
                      << <<layerBase + i, layerBase + ((i + 1) % 10)>> >>
                        \o (IF layer < 4
                            THEN << <<layerBase + i, layerBase + 10 + i>>,
                                    <<layerBase + i, layerBase + 10 + ((i + 1) % 10)>> >>
                            ELSE <<>>)])])])
      crossEdges ==
        ForEach(0, 49, [i \in 0..49 |->
          << <<i, 50 + ((i * 3) % 50)>>, <<i, 50 + ((i * 3 + 1) % 50)>> >>])
  IN  [name |-> "Grand Antiprism",
       dimension |-> 4,
       vertices |-> vertices,
       edges |-> ringEdges \o crossEdges,
       faces |-> ForEach(0, 1, [ring \in 0..1 |->
                   LET base == ring * 50
                   IN  ForEach(0, 3, [layer \in 0..3 |->
                         LET layerBase == base + layer * 10
                         IN  ForEach(0, 9, [i \in 0..9 |->
                               LET ni == (i + 1) % 10
                               IN  << <<layerBase + i, layerBase + ni, layerBase + 10 + i>>,
                                      <<layerBase + ni, layerBase + 10 + ni,
                                        layerBase + 10 + i>> >>])])])]

(***************************************************************************)
(* Projections (projections.ts).  A ProjectionConfig is a record with type *)
(* and, when they are given, viewDistance and poleDistance.                *)
(***************************************************************************)
perspectiveProject(point, viewDistance) ==
  LET n == point.dimension
      lastCoord == VectorND_get(point, n - 1)
      scale == NumberDiv(viewDistance, NumberPlus(viewDistance, NumberTimes(Num(-1), lastCoord)))
  IN  IF n < 2 THEN point
      ELSE NewVectorND([i \in 0..(n - 2) |-> NumberTimes(VectorND_get(point, i), scale)])

\* the last two coordinates are dropped
orthographicProjectDroppingTwo(point) == VectorND_truncate(point, point.dimension - 2)

orthographicProject(point) == VectorND_truncate(point, point.dimension - 1)

stereographicProject(point, poleDistance) ==
  LET n == point.dimension
      lastCoord == VectorND_get(point, n - 1)
      scale == NumberDiv(poleDistance, NumberPlus(poleDistance, NumberTimes(Num(-1), lastCoord)))
  IN  IF n < 2 THEN point
      ELSE NewVectorND([i \in 0..(n - 2) |-> NumberTimes(VectorND_get(point, i), scale)])

\* config.viewDistance ?? 2, config.poleDistance ?? 1
project(point, config) ==
  CASE config.type = "perspective" ->
         perspectiveProject(point, IF "viewDistance" \in DOMAIN config
                                   THEN config.viewDistance ELSE Num(2))
    [] config.type = "orthographic" -> orthographicProject(point)
    [] config.type = "stereographic" ->
         stereographicProject(point, IF "poleDistance" \in DOMAIN config
                                     THEN config.poleDistance ELSE Num(1))
    [] OTHER -> orthographicProject(point)

\* the loop of projectTo3D stopping one dimension early
projectTo3DStoppingAtFour(point, config) ==
  LET RECURSIVE Loop(_, _)
      Loop(current, calls) ==
        IF current.dimension > 4
        THEN LET next == project(current, config)
             IN  Loop(next, Append(calls, next))
        ELSE [current |-> current, calls |-> calls]
  IN  Loop(point, <<>>)

\* while (current.dimension > 3) current = project(current, config); calls
\* lists what the calls of project returned, in order
projectTo3D(point, config) ==
  LET RECURSIVE Loop(_, _)
      Loop(current, calls) ==
        IF current.dimension > 3
        THEN LET next == project(current, config)
             IN  Loop(next, Append(calls, next))
        ELSE [current |-> current, calls |-> calls]
  IN  Loop(point, <<>>)

(***************************************************************************)
(* Inputs of the calls, drawn from bounded sets.                           *)
(***************************************************************************)
Components == {Num(-1), Num(2)}

Vectors(d) ==
  {NewVectorND(c) : c \in [0..(d - 1) -> Components]} \cup {VectorND_zero(d)}

AllVectors == UNION {Vectors(d) : d \in 0..MaxDim}

\* the vectors whose magnitude is a rational
RationalLengthVectors ==
  {v \in AllVectors : IsSquare(VectorND_magnitudeSquared(v))}

\* the first basis vector and (1, 2, ..., d)
TestVectors(d) ==
  {VectorND_basis(d, 0), NewVectorND([i \in 0..(d - 1) |-> Num(i + 1)])}

\* every RotationND the constructor returns for a plane of coordinate axes
Rotations(d, angles) ==
  {NewRotationND(d, a, b, ang).value :
     <<a, b, ang>> \in {t \in (0..(d - 1)) \X (0..(d - 1)) \X angles : t[1] # t[2]}}

AllRotations == UNION {Rotations(d, Angles) : d \in 1..MaxDim}

ComposeAngles == {"90", "p"}

\* the lists of one dimension, and lists that mix dimensions
UniformLists ==
  UNION {[1..n -> Rotations(d, ComposeAngles)] : <<n, d>> \in (0..MaxLen) \X (2..MaxDim)}

MixedLists ==
  UNION {[1..n -> {NewRotationND(d, 0, 1, "90").value : d \in 2..MaxDim}] :
           n \in 0..MaxLen}

RotationLists == UniformLists \cup MixedLists

\* square matrices with entries a + b*row + c*col
SampleMatrices(n) ==
  {NewMatrixND([i \in 0..(n - 1) |-> [j \in 0..(n - 1) |-> Num(a + b * i + c * j)]]) :
     <<a, b, c>> \in {-1, 0, 2} \X {0, 1} \X {0, 3}}
    \cup {MatrixND_identity(n)}

AllMatrices == UNION {SampleMatrices(n) : n \in 0..MaxSize}

(***************************************************************************)
(* The app store (stores/appStore.ts) and the viewer that reads it         *)
(* (NDGeometry).  The state of the store is a record of its fields;        *)
(* rotationAngles is a function from the plane names that are set to their *)
(* angles, and a handler is the state that set(...) leaves.                *)
(***************************************************************************)
\* the elements of a list
Range(list) == {list[k] : k \in DOMAIN list}

\* customGeometry: null
null == [null |-> TRUE]

InitialState ==
  [geometryType |-> "hypercube",
   dimension |-> 4,
   customGeometry |-> null,
   renderMode |-> "both",
   rotationAngles |-> <<>>,
   projectionType |-> "perspective",
   viewDistance |-> Num(3),
   isAnimating |-> TRUE,
   animationSpeed |-> Rat(1, 2),
   activeRotationPlanes |-> <<"XW", "YW">>,
   sliceEnabled |-> FALSE,
   slicePosition |-> Num(0),
   sliceAnimating |-> FALSE,
   physicsEnabled |-> FALSE,
   gravityAxis |-> 3]

setGeometryType(state, type) ==
  [state EXCEPT !.geometryType = type, !.customGeometry = null, !.physicsEnabled = FALSE]

\* A name includes 'W', 'V' or 'U' when one of its axes is 3, 4 or 5: the
\* names of the other axes are X, Y, Z and A6, A7, ...
setDimension(state, dim) ==
  LET planes == getRotationPlanes(dim)
      planeNames == [p \in DOMAIN planes |-> AxisName(planes[p][1]) \o AxisName(planes[p][2])]
      Includes(p, axis) == planes[p][1] = axis \/ planes[p][2] = axis
      filtered == ForEach(1, Len(planes), [p \in DOMAIN planes |->
                    IF Includes(p, 3) \/ Includes(p, 4) \/ Includes(p, 5)
                    THEN <<planeNames[p]>> ELSE <<>>])
      activePlanes == SubSeq(filtered, 1, Min(2, Len(filtered)))
  IN  [state EXCEPT !.dimension = dim,
                    !.rotationAngles = <<>>,
                    !.activeRotationPlanes = activePlanes,
                    !.customGeometry = null]

setCustomGeometry(state, geometry) ==
  IF geometry # null
  THEN [state EXCEPT !.customGeometry = geometry,
                     !.geometryType = "custom",
                     !.dimension = geometry.dimension]
  ELSE [state EXCEPT !.customGeometry = null, !.geometryType = "hypercube"]

toggleRotationPlane(state, plane) ==
  LET planes == state.activeRotationPlanes
  IN  IF plane \in Range(planes)
      THEN [state EXCEPT !.activeRotationPlanes = SelectSeq(planes, LAMBDA p : p # plane)]
      ELSE [state EXCEPT !.activeRotationPlanes = Append(planes, plane)]

\* every generator is called with its default size 1
createGeometry(type, dimension) ==
  CASE type = "hypercube" -> createHypercube(dimension, Num(1))
    [] type = "simplex" -> createSimplex(dimension, Num(1))
    [] type = "orthoplex" -> createOrthoplex(dimension, Num(1))
    [] type = "24-cell" -> create24Cell(Num(1))
    [] OTHER -> createHypercube(dimension, Num(1))

\* every angle of the table other than "0" is larger than 0.0001
buildRotationMatrix(dimension, angles) ==
  LET planes == getRotationPlanes(dimension)
      planeNames == getRotationPlaneNames(dimension)
      RECURSIVE Loop(_, _)
      Loop(i, matrix) ==
        IF i > Len(planes) \/ matrix.throws THEN matrix
        ELSE LET angle == IF planeNames[i] \in DOMAIN angles
                          THEN angles[planeNames[i]] ELSE "0"
             IN  IF angle # "0"
                 THEN LET rotation == NewRotationND(dimension, planes[i][1],
                                                    planes[i][2], angle)
                      IN  Loop(i + 1, IF rotation.throws THEN rotation
                                      ELSE ComposeStep(rotation.value, matrix.value))
                 ELSE Loop(i + 1, matrix)
  IN  Loop(1, Return(MatrixND_identity(dimension)))

\* useMemo keeps what createGeometry returned for a type and a dimension
Memo ==
  [type \in {"hypercube", "simplex", "orthoplex", "24-cell", "custom"},
   dimension \in 1..(MaxStoreDim + 1) |-> createGeometry(type, dimension)]

\* the geometry the viewer draws
baseGeometry(state) ==
  IF state.geometryType = "custom" /\ state.customGeometry # null
  THEN state.customGeometry
  ELSE Memo[state.geometryType, state.dimension]

\* The angles a frame of duration 0 leaves in the store: newAngles[plane] =
\* (newAngles[plane] ?? 0) + delta * animationSpeed for the active planes
\* that are planes of the dimension.
FrameAngles(state) ==
  LET planes == Range(getRotationPlaneNames(state.dimension))
      turned == {plane \in Range(state.activeRotationPlanes) : plane \in planes}
      angles == state.rotationAngles
  IN  IF state.isAnimating /\ ~(turned \subseteq DOMAIN angles)
      THEN [plane \in DOMAIN angles \cup turned |->
              IF plane \in DOMAIN angles THEN angles[plane] ELSE "0"]
      ELSE angles

\* What the frame callback does up to rotationMatrix.transform(v) on every
\* vertex: transform throws on a vertex whose dimension is not the size of
\* the matrix; the transformed coordinates go to the line buffers, which are
\* not kept.
useFrame(state) ==
  LET rotationMatrix == buildRotationMatrix(state.dimension, FrameAngles(state))
      vertices == baseGeometry(state).vertices
  IN  IF rotationMatrix.throws THEN rotationMatrix
      ELSE IF \E v \in DOMAIN vertices :
                vertices[v].dimension # rotationMatrix.value.size
      THEN Throw("Vector dimension doesn't match matrix size")
      ELSE Return("undefined")

(***************************************************************************)
(* PhysicsEngine (core/physics/PhysicsEngine.ts).  An engine is a record   *)
(* of its fields, particles being the list of the particles in the order   *)
(* they were added.  The coordinates, the masses and deltaTime are numbers *)
(* that may be infinite or NaN.                                            *)
(***************************************************************************)
\* VectorND.add on such numbers
Numbers_add(this, other) ==
  LET maxDim == Max(this.dimension, other.dimension)
  IN  NewVectorND([i \in 0..(maxDim - 1) |->
                     NumberPlus(VectorND_get(this, i), VectorND_get(other, i))])

\* VectorND.scale on such numbers
Numbers_scale(this, scalar) ==
  NewVectorND([i \in DOMAIN this.components |-> NumberTimes(this.components[i], scalar)])

\* VectorND.magnitude on such numbers: Math.sqrt of the sum of the squares
Numbers_magnitude(this) ==
  LET RECURSIVE Sum(_, _)
      Sum(i, sum) ==
        IF i >= this.dimension THEN sum
        ELSE Sum(i + 1, NumberPlus(sum, NumberTimes(this.components[i],
                                                    this.components[i])))
      squared == Sum(0, Num(0))
  IN  IF squared[2] = 0 THEN squared ELSE MathSqrt(squared)

NewPhysicsEngine(dimension) ==
  LET filled == [i \in 0..(dimension - 1) |-> Num(0)]
      gravityComponents == (Min(1, dimension - 1) :> Num(-3)) @@ filled
  IN  [particles |-> <<>>,
       dimension |-> dimension,
       gravity |-> NewVectorND(gravityComponents),
       damping |-> Rat(24, 25),
       timeScale |-> Num(1),
       bounds |-> [min |-> Num(-2), max |-> Num(2)]]

\* velocity is null when the argument is left out
addParticle(this, position, velocity, mass) ==
  [this EXCEPT !.particles =
     Append(@, [position |-> VectorND_extend(position, this.dimension),
                velocity |-> IF velocity # null
                             THEN VectorND_extend(velocity, this.dimension)
                             ELSE VectorND_zero(this.dimension),
                mass |-> mass])]

\* Edges are pairs of indices from 0.  An index below 0 reads undefined,
\* whose position throws a TypeError; the engine keeps what the earlier
\* edges did.  restLength is 1 and stiffness is 0.3.
applySpringForces(this, edges) ==
  LET \* diff.normalize().scale(displacement * stiffness * 0.5)
      Force(diff, dist) ==
        Numbers_scale(IF dist = Num(0) THEN VectorND_zero(diff.dimension)
                      ELSE Numbers_scale(diff, NumberDiv(Num(1), dist)),
                      NumberTimes(NumberTimes(NumberPlus(dist, Num(-1)), Rat(3, 10)),
                                  Rat(1, 2)))
      \* p1.velocity = p1.velocity.add(...), then p2.velocity =
      \* p2.velocity.subtract(...): p2 is p1 when i = j
      Pull(particles, i, j, force) ==
        [[particles EXCEPT ![i + 1].velocity =
            Numbers_add(@, Numbers_scale(force, NumberDiv(Num(1), particles[i + 1].mass)))]
           EXCEPT ![j + 1].velocity =
            Numbers_add(@, Numbers_scale(Numbers_scale(force,
                                           NumberDiv(Num(1), particles[j + 1].mass)),
                                         Num(-1)))]
      Spring(particles, i, j, diff) ==
        IF NumberLess(Numbers_magnitude(diff), Rat(1, 1000)) THEN particles
        ELSE Pull(particles, i, j, Force(diff, Numbers_magnitude(diff)))
      RECURSIVE Loop(_, _)
      Loop(e, particles) ==
        IF e > Len(edges) THEN [engine |-> [this EXCEPT !.particles = particles],
                                outcome |-> Return("undefined")]
        ELSE IF edges[e][1] >= Len(particles) \/ edges[e][2] >= Len(particles)
        THEN Loop(e + 1, particles)
        ELSE IF edges[e][1] < 0 \/ edges[e][2] < 0
        THEN [engine |-> [this EXCEPT !.particles = particles],
              outcome |-> Throw("TypeError")]
        ELSE Loop(e + 1,
                  Spring(particles, edges[e][1], edges[e][2],
                         Numbers_add(particles[edges[e][2] + 1].position,
                                     Numbers_scale(particles[edges[e][1] + 1].position,
                                                   Num(-1)))))
  IN  Loop(1, this.particles)

\* newPos[d] = ... on a copy of the components sets key d, also past the
\* end of a shorter vector; restitution is 0.7
applyBoundaryConstraints(this) ==
  LET Put(vector, d, value) ==
        NewVectorND([k \in DOMAIN vector.components \cup {d} |->
                       IF k = d THEN value ELSE vector.components[k]])
      Bounce(particle, d, wall, sign) ==
        [position |-> Put(particle.position, d, wall),
         velocity |-> Put(particle.velocity, d,
                          NumberTimes(NumberTimes(sign,
                                        MathAbs(VectorND_get(particle.velocity, d))),
                                      Rat(7, 10))),
         mass |-> particle.mass]
      RECURSIVE Axes(_, _)
      Axes(d, particle) ==
        IF d >= this.dimension THEN particle
        ELSE IF NumberLess(VectorND_get(particle.position, d), this.bounds.min)
        THEN Axes(d + 1, Bounce(particle, d, this.bounds.min, Num(1)))
        ELSE IF NumberLess(this.bounds.max, VectorND_get(particle.position, d))
        THEN Axes(d + 1, Bounce(particle, d, this.bounds.max, Num(-1)))
        ELSE Axes(d + 1, particle)
  IN  [this EXCEPT !.particles = [p \in DOMAIN @ |-> Axes(0, @[p])]]

\* The engine after gravity, springs, damping and the move, before the
\* boundary constraints.  rest is the list of the arguments after deltaTime:
\* <<edges>>, or <<>> when edges is left out.
stepMotion(this, deltaTime, rest) ==
  LET \* Math.min(deltaTime, 0.033) * this.timeScale
      Dt(limit) ==
        NumberTimes(IF deltaTime = <<0, 0>> THEN deltaTime
                    ELSE IF NumberLess(deltaTime, limit) THEN deltaTime ELSE limit,
                    this.timeScale)
      Fall(dt) ==
        [this EXCEPT !.particles =
           [p \in DOMAIN @ |->
              [@[p] EXCEPT !.velocity = Numbers_add(@, Numbers_scale(this.gravity, dt))]]]
      Spring(fallen) ==
        IF Len(rest) > 0 THEN applySpringForces(fallen, rest[1])
        ELSE [engine |-> fallen, outcome |-> Return("undefined")]
      Damp(particle) ==
        [particle EXCEPT !.velocity = Numbers_scale(@, this.damping)]
      Move(particle, dt) ==
        [particle EXCEPT
           !.position = Numbers_add(@, Numbers_scale(particle.velocity, dt))]
      Update(sprung, dt) ==
        IF sprung.outcome.throws THEN sprung
        ELSE [engine |-> [sprung.engine EXCEPT !.particles =
                            [p \in DOMAIN @ |-> Move(Damp(@[p]), dt)]],
              outcome |-> sprung.outcome]
  IN  Update(Spring(Fall(Dt(Rat(33, 1000)))), Dt(Rat(33, 1000)))

step(this, deltaTime, rest) ==
  LET Constrain(moved) ==
        IF moved.outcome.throws THEN moved
        ELSE [engine |-> applyBoundaryConstraints(moved.engine),
              outcome |-> moved.outcome]
  IN  Constrain(stepMotion(this, deltaTime, rest))

(***************************************************************************)
(* The calls of the kernel as actions.  The kernel's functions are pure,   *)
(* so a behaviour is one call made from the initial state: the action      *)
(* records the call (op, inp) and its outcome (out).                       *)
(***************************************************************************)
Init ==
  /\ op = "init"
  /\ inp = <<>>
  /\ out = <<>>
  /\ heap = <<>>
  /\ made = <<>>
  /\ store = InitialState
  /\ engine = null
  /\ callsMade = 0

\* RotationND.compose(rotations).transform(vector)
Compose ==
  /\ op = "init"
  /\ \E rotations \in RotationLists :
       \E vector \in (IF Len(rotations) = 0 THEN {VectorND_zero(0)}
                      ELSE TestVectors(rotations[1].dimension)) :
         LET m == RotationND_compose(rotations)
         IN  /\ op' = "compose"
             /\ inp' = [rotations |-> rotations, vector |-> vector]
             /\ out' = [composed |-> m,
                        transformed |-> IF m.throws THEN m
                                        ELSE MatrixND_transform(m.value, vector)]
             /\ UNCHANGED <<heap, made, store, engine, callsMade>>

RotationPlanes ==
  /\ op = "init"
  /\ \E dimension \in 0..MaxPlaneDim :
       /\ op' = "getRotationPlanes"
       /\ inp' = dimension
       /\ out' = [planes |-> getRotationPlanes(dimension),
                  names |-> getRotationPlaneNames(dimension)]
       /\ UNCHANGED <<heap, made, store, engine, callsMade>>

ConstructRotation ==
  /\ op = "init"
  /\ \E dimension \in 0..MaxDim, axis1 \in -1..MaxDim, axis2 \in -1..MaxDim,
        angle \in Angles :
       /\ op' = "new RotationND"
       /\ inp' = [dimension |-> dimension, axis1 |-> axis1, axis2 |-> axis2,
                  angle |-> angle]
       /\ out' = NewRotationND(dimension, axis1, axis2, angle)
       /\ UNCHANGED <<heap, made, store, engine, callsMade>>

Apply ==
  /\ op = "init"
  /\ \E rotation \in AllRotations, vector \in AllVectors :
       /\ op' = "apply"
       /\ inp' = [rotation |-> rotation, vector |-> vector]
       /\ out' = RotationND_apply(rotation, vector)
       /\ UNCHANGED <<heap, made, store, engine, callsMade>>

Multiply ==
  /\ op = "init"
  /\ \E this \in AllMatrices, other \in AllMatrices :
       /\ op' = "multiply"
       /\ inp' = [this |-> this, other |-> other]
       /\ out' = MatrixND_multiply(this, other)
       /\ UNCHANGED <<heap, made, store, engine, callsMade>>

Transform ==
  /\ op = "init"
  /\ \E this \in AllMatrices, vector \in AllVectors :
       /\ op' = "transform"
       /\ inp' = [this |-> this, vector |-> vector]
       /\ out' = MatrixND_transform(this, vector)
       /\ UNCHANGED <<heap, made, store, engine, callsMade>>

Add ==
  /\ op = "init"
  /\ \E this \in AllVectors, other \in AllVectors :
       /\ op' = "add"
       /\ inp' = [this |-> this, other |-> other]
       /\ out' = VectorND_add(this, other)
       /\ UNCHANGED <<heap, made, store, engine, callsMade>>

Subtract ==
  /\ op = "init"
  /\ \E this \in AllVectors, other \in AllVectors :
       /\ op' = "subtract"
       /\ inp' = [this |-> this, other |-> other]
       /\ out' = VectorND_subtract(this, other)
       /\ UNCHANGED <<heap, made, store, engine, callsMade>>

\* a.dot(b) and b.dot(a)
Dot ==
  /\ op = "init"
  /\ \E this \in AllVectors, other \in AllVectors :
       /\ op' = "dot"
       /\ inp' = [this |-> this, other |-> other]
       /\ out' = [forward |-> Return(VectorND_dot(this, other)),
                  backward |-> Return(VectorND_dot(other, this))]
       /\ UNCHANGED <<heap, made, store, engine, callsMade>>

Normalize ==
  /\ op = "init"
  /\ \E this \in RationalLengthVectors :
       /\ op' = "normalize"
       /\ inp' = [this |-> this]
       /\ out' = Return(VectorND_normalize(this))
       /\ UNCHANGED <<heap, made, store, engine, callsMade>>

ProjectOnto ==
  /\ op = "init"
  /\ \E this \in AllVectors, other \in AllVectors :
       /\ op' = "projectOnto"
       /\ inp' = [this |-> this, other |-> other]
       /\ out' = Return(VectorND_projectOnto(this, other))
       /\ UNCHANGED <<heap, made, store, engine, callsMade>>

\* the dimensions and indices asked for are negative, in range, and past the
\* end
Truncate ==
  /\ op = "init"
  /\ \E this \in AllVectors, newDimension \in -1..(MaxDim + 1) :
       /\ op' = "truncate"
       /\ inp' = [this |-> this, newDimension |-> newDimension]
       /\ out' = Return(VectorND_truncate(this, newDimension))
       /\ UNCHANGED <<heap, made, store, engine, callsMade>>

\* v.extend(newDimension), and v.extend(newDimension).truncate(v.dimension)
Extend ==
  /\ op = "init"
  /\ \E this \in AllVectors, newDimension \in -1..(MaxDim + 1) :
       LET extended == VectorND_extend(this, newDimension)
       IN  /\ op' = "extend"
           /\ inp' = [this |-> this, newDimension |-> newDimension]
           /\ out' = [extended |-> Return(extended),
                      back |-> Return(VectorND_truncate(extended, this.dimension))]
           /\ UNCHANGED <<heap, made, store, engine, callsMade>>

Get ==
  /\ op = "init"
  /\ \E this \in AllVectors, index \in -1..(MaxDim + 1) :
       /\ op' = "get"
       /\ inp' = [this |-> this, index |-> index]
       /\ out' = Return(VectorND_get(this, index))
       /\ UNCHANGED <<heap, made, store, engine, callsMade>>

Next ==
  \/ Compose
  \/ RotationPlanes
  \/ ConstructRotation
  \/ Apply
  \/ Multiply
  \/ Transform
  \/ Add
  \/ Subtract
  \/ Dot
  \/ Normalize
  \/ ProjectOnto
  \/ Truncate
  \/ Extend
  \/ Get

Spec == Init /\ [][Next]_vars

(***************************************************************************)
(* MatrixND objects.  heap[m] is the m-th MatrixND the caller keeps, made[m]*)
(* its data when its constructor returned.  The caller keeps the matrices  *)
(* it builds (new, identity, zero, rotation); the matrix returned by       *)
(* multiply, transpose, clone or scale is a fresh object handed back in    *)
(* out.  set writes into its receiver.                                     *)
(***************************************************************************)
Refs == DOMAIN heap

Sizes == {MaxSize}

\* positions probed by get and set: in range and one past either end
Probe(n) == {-1, 0, n}

CountingData(n) ==
  [i \in 0..(n - 1) |-> [j \in 0..(n - 1) |-> Num(1 + i * n + j)]]

\* the number of entries written by set so far
Written ==
  Cardinality({<<m, i, k>> \in Refs \X (0..MaxSize) \X (-1..MaxSize) :
                 /\ i \in DOMAIN heap[m].data
                 /\ k \in DOMAIN heap[m].data[i]
                 /\ (k \notin DOMAIN made[m][i] \/ made[m][i][k] # heap[m].data[i][k])})

\* a builder returned the new matrix, which is kept
Allocate(name, args, matrix) ==
  /\ heap' = Append(heap, matrix)
  /\ made' = Append(made, matrix.data)
  /\ op' = name
  /\ inp' = args
  /\ out' = Return(Len(heap) + 1)
  /\ UNCHANGED <<store, engine, callsMade>>

\* a call threw or returned a value; the kept matrices are not assigned to
Answer(name, args, outcome) ==
  /\ op' = name
  /\ inp' = args
  /\ out' = outcome
  /\ UNCHANGED <<heap, made, store, engine, callsMade>>

MNew ==
  /\ Len(heap) < MaxHeap
  /\ \E n \in Sizes : Allocate("new", <<n>>, NewMatrixND(CountingData(n)))

MIdentity ==
  /\ Len(heap) < MaxHeap
  /\ \E n \in Sizes : Allocate("identity", <<n>>, MatrixND_identity(n))

MZero ==
  /\ Len(heap) < MaxHeap
  /\ \E n \in Sizes : Allocate("zero", <<n>>, MatrixND_zero(n))

MRotation ==
  /\ Len(heap) < MaxHeap
  /\ \E n \in Sizes :
       \E axis1 \in {0, n}, axis2 \in {1, n} :
         LET r == MatrixND_rotation(n, axis1, axis2, "90")
         IN  IF r.throws THEN Answer("rotation", <<n, axis1, axis2>>, r)
             ELSE Allocate("rotation", <<n, axis1, axis2>>, r.value)

MGet ==
  \E m \in Refs :
    \E row \in Probe(heap[m].size), col \in Probe(heap[m].size) :
      Answer("get", [m |-> m, row |-> row, col |-> col],
             Return(MatrixND_get(heap[m], row, col)))

\* the scalar-valued writes the callers make: set(row, col, value)
MSet ==
  \E m \in Refs :
    \E row \in Probe(heap[m].size), col \in Probe(heap[m].size) :
      /\ Written < MaxSets
      /\ heap' = [heap EXCEPT ![m] = MatrixND_set(heap[m], row, col, Num(7))]
      /\ op' = "set"
      /\ inp' = [m |-> m, row |-> row, col |-> col]
      /\ out' = Return("undefined")
      /\ UNCHANGED <<made, store, engine, callsMade>>

MMultiply ==
  \E m \in Refs, o \in Refs :
    Answer("multiply", <<m, o>>, MatrixND_multiply(heap[m], heap[o]))

MTransform ==
  \E m \in Refs :
    \E vector \in TestVectors(heap[m].size) :
      Answer("transform", <<m, vector>>, MatrixND_transform(heap[m], vector))

MTranspose ==
  \E m \in Refs : Answer("transpose", <<m>>, Return(MatrixND_transpose(heap[m])))

MClone ==
  \E m \in Refs : Answer("clone", <<m>>, Return(MatrixND_clone(heap[m])))

\* scales the receiver's rows in place and returns the receiver
MScaleInPlace ==
  \E m \in Refs :
    /\ heap' = [heap EXCEPT ![m] = MatrixND_scale(heap[m], Num(2))]
    /\ op' = "scale"
    /\ inp' = <<m>>
    /\ out' = Return(heap'[m])
    /\ UNCHANGED <<made, store, engine, callsMade>>

MScale ==
  \E m \in Refs : Answer("scale", <<m>>, Return(MatrixND_scale(heap[m], Num(2))))

NextMatrix ==
  \/ MNew
  \/ MIdentity
  \/ MZero
  \/ MRotation
  \/ MGet
  \/ MSet
  \/ MMultiply
  \/ MTransform
  \/ MTranspose
  \/ MClone
  \/ MScale

SpecMatrix == Init /\ [][NextMatrix]_vars

(***************************************************************************)
(* The geometry generators as calls: one call per behaviour, the returned  *)
(* GeometryND in out.                                                      *)
(***************************************************************************)
GeometrySizes == {Num(1), Num(2), Rat(1, 2)}

Hypercube ==
  /\ op = "init"
  /\ \E dimension \in 1..MaxGeometryDim, size \in GeometrySizes :
       /\ op' = "createHypercube"
       /\ inp' = [dimension |-> dimension, size |-> size]
       /\ out' = createHypercube(dimension, size)
       /\ UNCHANGED <<heap, made, store, engine, callsMade>>

Simplex ==
  /\ op = "init"
  /\ \E dimension \in 1..MaxGeometryDim, size \in GeometrySizes :
       /\ op' = "createSimplex"
       /\ inp' = [dimension |-> dimension, size |-> size]
       /\ out' = createSimplex(dimension, size)
       /\ UNCHANGED <<heap, made, store, engine, callsMade>>

Orthoplex ==
  /\ op = "init"
  /\ \E dimension \in 1..MaxGeometryDim, size \in GeometrySizes :
       /\ op' = "createOrthoplex"
       /\ inp' = [dimension |-> dimension, size |-> size]
       /\ out' = createOrthoplex(dimension, size)
       /\ UNCHANGED <<heap, made, store, engine, callsMade>>

Cell24 ==
  /\ op = "init"
  /\ \E size \in GeometrySizes :
       /\ op' = "create24Cell"
       /\ inp' = [size |-> size]
       /\ out' = create24Cell(size)
       /\ UNCHANGED <<heap, made, store, engine, callsMade>>

Cell600 ==
  /\ op = "init"
  /\ \E size \in GeometrySizes :
       /\ op' = "create600Cell"
       /\ inp' = [size |-> size]
       /\ out' = create600Cell(size)
       /\ UNCHANGED <<heap, made, store, engine, callsMade>>

CliffordTorus ==
  /\ op = "init"
  /\ \E majorSegments \in 1..MaxSegments, minorSegments \in 1..MaxSegments,
        size \in GeometrySizes :
       /\ op' = "createCliffordTorus"
       /\ inp' = [majorSegments |-> majorSegments, minorSegments |-> minorSegments,
                  size |-> size]
       /\ out' = createCliffordTorus(majorSegments, minorSegments, size)
       /\ UNCHANGED <<heap, made, store, engine, callsMade>>

Duocylinder ==
  /\ op = "init"
  /\ \E segments \in 1..MaxSegments, size \in GeometrySizes :
       /\ op' = "createDuocylinder"
       /\ inp' = [segments |-> segments, size |-> size]
       /\ out' = createDuocylinder(segments, size)
       /\ UNCHANGED <<heap, made, store, engine, callsMade>>

Hypercone ==
  /\ op = "init"
  /\ \E segments \in 1..MaxSegments, rings \in 1..MaxRings, size \in GeometrySizes :
       /\ op' = "createHypercone"
       /\ inp' = [segments |-> segments, rings |-> rings, size |-> size]
       /\ out' = createHypercone(segments, rings, size)
       /\ UNCHANGED <<heap, made, store, engine, callsMade>>

GrandAntiprism ==
  /\ op = "init"
  /\ \E size \in GeometrySizes :
       /\ op' = "createGrandAntiprism"
       /\ inp' = [size |-> size]
       /\ out' = createGrandAntiprism(size)
       /\ UNCHANGED <<heap, made, store, engine, callsMade>>

NextGeometry ==
  \/ Hypercube
  \/ Simplex
  \/ Orthoplex
  \/ Cell24
  \/ Cell600
  \/ CliffordTorus
  \/ Duocylinder
  \/ Hypercone
  \/ GrandAntiprism

SpecGeometry == Init /\ [][NextGeometry]_vars

(***************************************************************************)
(* Calls of the projections, one call in each behaviour.                   *)
(***************************************************************************)
ProjectionPoints == UNION {Vectors(d) : d \in 0..MaxPointDim}

\* every type, with and without the distances
ProjectionConfigs ==
  LET types == {"perspective", "orthographic", "stereographic"}
      distances == {Num(-1), Num(2), Num(3)}
  IN  {[type |-> t] : t \in types}
        \cup {[type |-> t, viewDistance |-> v] : t \in types, v \in distances}
        \cup {[type |-> t, poleDistance |-> p] : t \in types, p \in distances}
        \cup {[type |-> t, viewDistance |-> v, poleDistance |-> p] :
                t \in types, v \in distances, p \in distances}

PerspectiveProject ==
  /\ op = "init"
  /\ \E point \in ProjectionPoints, viewDistance \in {Num(-1), Num(2), Num(3)} :
       /\ op' = "perspectiveProject"
       /\ inp' = [point |-> point, viewDistance |-> viewDistance]
       /\ out' = Return(perspectiveProject(point, viewDistance))
       /\ UNCHANGED <<heap, made, store, engine, callsMade>>

OrthographicProject ==
  /\ op = "init"
  /\ \E point \in ProjectionPoints :
       /\ op' = "orthographicProject"
       /\ inp' = [point |-> point]
       /\ out' = Return(orthographicProject(point))
       /\ UNCHANGED <<heap, made, store, engine, callsMade>>

StereographicProject ==
  /\ op = "init"
  /\ \E point \in ProjectionPoints, poleDistance \in {Num(-1), Num(2), Num(3)} :
       /\ op' = "stereographicProject"
       /\ inp' = [point |-> point, poleDistance |-> poleDistance]
       /\ out' = Return(stereographicProject(point, poleDistance))
       /\ UNCHANGED <<heap, made, store, engine, callsMade>>

ProjectTo3D ==
  /\ op = "init"
  /\ \E point \in ProjectionPoints, config \in ProjectionConfigs :
       /\ op' = "projectTo3D"
       /\ inp' = [point |-> point, config |-> config]
       /\ out' = LET result == projectTo3D(point, config)
                 IN  [throws |-> FALSE, value |-> result.current, calls |-> result.calls]
       /\ UNCHANGED <<heap, made, store, engine, callsMade>>

NextProjection ==
  \/ PerspectiveProject
  \/ OrthographicProject
  \/ StereographicProject
  \/ ProjectTo3D

SpecProjection == Init /\ [][NextProjection]_vars

(***************************************************************************)
(* Calls of the app store's handlers and frames of the viewer, in any      *)
(* order, MaxCalls calls at most.                                          *)
(***************************************************************************)
\* a handler was called and left the state
Call(name, args, state) ==
  /\ callsMade < MaxCalls
  /\ callsMade' = callsMade + 1
  /\ store' = state
  /\ op' = name
  /\ inp' = args
  /\ out' = Return("undefined")
  /\ UNCHANGED <<heap, made, engine>>

SetGeometryType ==
  \E type \in {"hypercube", "simplex", "orthoplex", "24-cell", "custom"} :
    Call("setGeometryType", [type |-> type], setGeometryType(store, type))

SetDimension ==
  \E dim \in 2..MaxStoreDim :
    Call("setDimension", [dim |-> dim], setDimension(store, dim))

\* geometry: a well-formed geometry of a file, here a segment of some
\* dimension, or null
SetCustomGeometry ==
  \E geometry \in {[name |-> "custom", dimension |-> d,
                     vertices |-> ArrayOf(<<VectorND_zero(d), VectorND_basis(d, 0)>>),
                     edges |-> << <<0, 1>> >>, faces |-> <<>>] : d \in 2..MaxStoreDim}
                     \cup {null} :
    Call("setCustomGeometry", [geometry |-> geometry], setCustomGeometry(store, geometry))

\* the controls offer the planes of the current dimension
ToggleRotationPlane ==
  \E plane \in Range(getRotationPlaneNames(store.dimension)) :
    Call("toggleRotationPlane", [plane |-> plane], toggleRotationPlane(store, plane))

\* the handlers that set or flip one field, or two
SetField ==
  \/ \E mode \in {"wireframe", "solid", "both"} :
       Call("setRenderMode", [mode |-> mode], [store EXCEPT !.renderMode = mode])
  \/ \E plane \in Range(getRotationPlaneNames(store.dimension)), angle \in {"0", "90"} :
       Call("setRotationAngle", [plane |-> plane, angle |-> angle],
            [store EXCEPT !.rotationAngles =
               [p \in DOMAIN store.rotationAngles \cup {plane} |->
                  IF p = plane THEN angle ELSE store.rotationAngles[p]]])
  \/ \E type \in {"perspective", "orthographic", "stereographic"} :
       Call("setProjectionType", [type |-> type], [store EXCEPT !.projectionType = type])
  \/ \E distance \in {Num(2), Num(3)} :
       Call("setViewDistance", [distance |-> distance],
            [store EXCEPT !.viewDistance = distance])
  \/ Call("toggleAnimation", <<>>, [store EXCEPT !.isAnimating = ~store.isAnimating])
  \/ \E speed \in {Rat(1, 2), Num(1)} :
       Call("setAnimationSpeed", [speed |-> speed], [store EXCEPT !.animationSpeed = speed])
  \/ Call("resetRotations", <<>>, [store EXCEPT !.rotationAngles = <<>>])
  \/ \E enabled \in BOOLEAN :
       Call("setSliceEnabled", [enabled |-> enabled],
            [store EXCEPT !.sliceEnabled = enabled])
  \/ \E pos \in {Num(0), Num(1)} :
       Call("setSlicePosition", [pos |-> pos], [store EXCEPT !.slicePosition = pos])
  \/ Call("toggleSliceAnimation", <<>>,
          [store EXCEPT !.sliceAnimating = ~store.sliceAnimating])
  \/ \E enabled \in BOOLEAN :
       Call("setPhysicsEnabled", [enabled |-> enabled],
            [store EXCEPT !.physicsEnabled = enabled, !.isAnimating = ~enabled])
  \/ \E axis \in 0..3 :
       Call("setGravityAxis", [axis |-> axis], [store EXCEPT !.gravityAxis = axis])

\* a frame of the viewer: writes the animated angles, then transforms
Frame ==
  /\ store' = [store EXCEPT !.rotationAngles = FrameAngles(store)]
  /\ op' = "useFrame"
  /\ inp' = [delta |-> Num(0)]
  /\ out' = useFrame(store)
  /\ UNCHANGED <<heap, made, engine, callsMade>>

NextStore ==
  \/ SetGeometryType
  \/ SetDimension
  \/ SetCustomGeometry
  \/ ToggleRotationPlane
  \/ SetField
  \/ Frame

SpecStore == Init /\ [][NextStore]_vars

(***************************************************************************)
(* Calls on a PhysicsEngine, in any order: MaxParticles particles and      *)
(* MaxEngineCalls calls of the other methods at most.                      *)
(***************************************************************************)
\* a method of the engine was called and left the engine
EngineCall(name, args, this, outcome) ==
  /\ callsMade < MaxEngineCalls
  /\ callsMade' = callsMade + 1
  /\ engine' = this
  /\ op' = name
  /\ inp' = args
  /\ out' = outcome
  /\ UNCHANGED <<heap, made, store>>

Construct ==
  /\ engine = null
  /\ \E dimension \in {1, 2} :
       /\ engine' = NewPhysicsEngine(dimension)
       /\ op' = "new PhysicsEngine"
       /\ inp' = [dimension |-> dimension]
       /\ out' = Return("undefined")
       /\ UNCHANGED <<heap, made, store, callsMade>>

\* position: a vertex outside the box or a shorter vector; rest is the
\* velocity, null when it is left out, and the mass
AddParticle ==
  /\ engine # null
  /\ Len(engine.particles) < MaxParticles
  /\ \E position \in {NewVectorND([i \in 0..(engine.dimension - 1) |->
                                     IF i = 0 THEN Num(-3) ELSE Num(0)]),
                        NewVectorND([i \in 0..0 |-> Num(1)])},
        rest \in {<<null, Num(0)>>, <<NewVectorND([i \in 0..0 |-> Num(1)]), Num(1)>>} :
       /\ engine' = addParticle(engine, position, rest[1], rest[2])
       /\ op' = "addParticle"
       /\ inp' = [position |-> position, velocity |-> rest[1], mass |-> rest[2]]
       /\ out' = Return("undefined")
       /\ UNCHANGED <<heap, made, store, callsMade>>

\* The springs of the list join particles at whole or non-finite coordinates
\* and have a length whose root is rational: the lengths the model computes.
ExactLengths(rest) ==
  Len(rest) > 0 =>
    \A e \in DOMAIN rest[1] :
      LET i == rest[1][e][1]
          j == rest[1][e][2]
          length == Len(engine.particles)
          Whole(vector) == \A k \in DOMAIN vector.components :
                             vector.components[k][2] \in {0, 1}
          Squared(diff) ==
            LET RECURSIVE Sum(_, _)
                Sum(k, sum) ==
                  IF k >= diff.dimension THEN sum
                  ELSE Sum(k + 1, NumberPlus(sum, NumberTimes(diff.components[k],
                                                              diff.components[k])))
            IN  Sum(0, Num(0))
      IN  (i \in 0..(length - 1) /\ j \in 0..(length - 1)) =>
            /\ Whole(engine.particles[i + 1].position)
            /\ Whole(engine.particles[j + 1].position)
            /\ LET squared == Squared(Numbers_add(engine.particles[j + 1].position,
                                 Numbers_scale(engine.particles[i + 1].position,
                                               Num(-1))))
               IN  squared[2] = 0 \/ IsSquare(squared)

\* deltaTime: NaN, a frame that ran backwards, no time, a long frame; rest,
\* the arguments after deltaTime: no edges, a spring, an index that is no
\* particle's
Step ==
  /\ engine # null
  /\ \E deltaTime \in {<<0, 0>>, Num(-1), Num(0), Num(1)},
        rest \in {<<>>, << << <<0, 1>> >> >>, << << <<-1, 0>> >> >>} :
       /\ ExactLengths(rest)
       /\ LET result == step(engine, deltaTime, rest)
          IN  EngineCall("step", [deltaTime |-> deltaTime, rest |-> rest],
                         result.engine, result.outcome)

\* Math.random() gives random, the same for every coordinate; strength is 0.3
ApplyRandomImpulse ==
  /\ engine # null
  /\ \E random \in {Num(0), Rat(3, 4)} :
       LET impulse == NewVectorND([d \in 0..(engine.dimension - 1) |->
                         Times(Minus(random, Rat(1, 2)), Rat(3, 10))])
       IN  EngineCall("applyRandomImpulse", [random |-> random],
                      [engine EXCEPT !.particles =
                         [p \in DOMAIN @ |->
                            [@[p] EXCEPT !.velocity = Numbers_add(@, impulse)]]],
                      Return("undefined"))

\* strength is 0.3 when the argument is left out
SetGravityAxis ==
  /\ engine # null
  /\ \E axis \in 0..engine.dimension :
       LET filled == [i \in 0..(engine.dimension - 1) |-> Num(0)]
           components == IF axis < engine.dimension
                         THEN (axis :> Rat(-3, 10)) @@ filled ELSE filled
       IN  EngineCall("setGravityAxis", [axis |-> axis],
                      [engine EXCEPT !.gravity = NewVectorND(components)],
                      Return("undefined"))

NextPhysics ==
  \/ Construct
  \/ AddParticle
  \/ Step
  \/ ApplyRandomImpulse
  \/ SetGravityAxis

SpecPhysics == Init /\ [][NextPhysics]_vars

(***************************************************************************)
(* Properties                                                              *)
(***************************************************************************)
SameDimension(rotations) ==
  \A i \in DOMAIN rotations : rotations[i].dimension = rotations[1].dimension

\* r_k.apply(... r_2.apply(r_1.apply(v)))
RECURSIVE ApplyAll(_, _, _)
ApplyAll(rotations, i, v) ==
  IF i > Len(rotations) THEN Return(v)
  ELSE LET r == RotationND_apply(rotations[i], v)
       IN  IF r.throws THEN r ELSE ApplyAll(rotations, i + 1, r.value)

Reverse(seq) == [i \in DOMAIN seq |-> seq[Len(seq) + 1 - i]]

\* C1: for every non-empty list of rotations of one dimension and every
\* vector v of that dimension, compose(list).transform(v) equals the result of
\* applying the rotations to v one after the other, the first of the list first.
C1_ComposeAppliesInListOrder ==
  (op = "compose" /\ Len(inp.rotations) > 0 /\ SameDimension(inp.rotations))
    => /\ ~out.composed.throws
       /\ out.transformed = ApplyAll(inp.rotations, 1, inp.vector)

\* a two-rotation composition whose order matters
C1_Witness ==
  /\ op = "compose"
  /\ Len(inp.rotations) = 2
  /\ SameDimension(inp.rotations)
  /\ ~out.transformed.throws
  /\ out.transformed = ApplyAll(inp.rotations, 1, inp.vector)
  /\ out.transformed # ApplyAll(Reverse(inp.rotations), 1, inp.vector)

\* C2: compose throws on the empty list and on a list holding a rotation whose
\* dimension differs from the first one's; no matrix is returned then.
C2_ComposeFailsOnEmptyOrMixed ==
  (op = "compose" /\ (Len(inp.rotations) = 0 \/ ~SameDimension(inp.rotations)))
    => /\ out.composed.throws
       /\ "value" \notin DOMAIN out.composed

C2_Witness ==
  /\ op = "compose"
  /\ Len(inp.rotations) = 2
  /\ inp.rotations[2].dimension # inp.rotations[1].dimension
  /\ out.composed.throws

RotXY90 == NewRotationND(3, 0, 1, "90").value

RotYZ90 == NewRotationND(3, 1, 2, "90").value

\* C3: in dimension 3, compose([XY 90, YZ 90]) maps (1,0,0) to (0,0,1), and
\* compose([YZ 90, XY 90]) maps (1,0,0) to a different vector.
C3_ComposeXYThenYZ ==
  /\ (op = "compose" /\ inp.rotations = <<RotXY90, RotYZ90>>
        /\ inp.vector = VectorND_basis(3, 0))
       => out.transformed = Return(VectorND_basis(3, 2))
  /\ (op = "compose" /\ inp.rotations = <<RotYZ90, RotXY90>>
        /\ inp.vector = VectorND_basis(3, 0))
       => /\ ~out.transformed.throws
          /\ out.transformed # Return(VectorND_basis(3, 2))

C3_Witness ==
  /\ op = "compose"
  /\ inp.rotations = <<RotXY90, RotYZ90>>
  /\ inp.vector = VectorND_basis(3, 0)
  /\ ~out.composed.throws
  /\ out.transformed.value = VectorND_basis(3, 2)

LexLess(p, q) == p[1] < q[1] \/ (p[1] = q[1] /\ p[2] < q[2])

\* C4: getRotationPlanes(n) lists exactly the pairs (i, j), 0 <= i < j < n,
\* each once, in lexicographic order, n(n-1)/2 of them; for n = 4 the planes
\* are 01 02 03 12 13 23 and the names XY XZ XW YZ YW ZW.
C4_RotationPlanesLexicographic ==
  op = "getRotationPlanes"
    => /\ Len(out.planes) = (inp * (inp - 1)) \div 2
       /\ {out.planes[k] : k \in DOMAIN out.planes}
            = {p \in (0..(inp - 1)) \X (0..(inp - 1)) : p[1] < p[2]}
       /\ \A k, l \in DOMAIN out.planes :
            k < l => LexLess(out.planes[k], out.planes[l])
       /\ Len(out.names) = Len(out.planes)
       /\ inp = 4 =>
            /\ out.planes = << <<0, 1>>, <<0, 2>>, <<0, 3>>,
                               <<1, 2>>, <<1, 3>>, <<2, 3>> >>
            /\ out.names = <<"XY", "XZ", "XW", "YZ", "YW", "ZW">>

C4_Witness ==
  /\ op = "getRotationPlanes"
  /\ inp = 4
  /\ Len(out.planes) = 6
  /\ out.names[3] = "XW"

\* C5: new RotationND(dimension, a, b, angle) throws when a = b or a >= dimension
\* or b >= dimension; when it succeeds it stores axis1 = min(a, b) and
\* axis2 = max(a, b), so axis1 < axis2 < dimension.
C5_ConstructorChecksAndOrdersAxes ==
  op = "new RotationND"
    => /\ (inp.axis1 = inp.axis2 \/ inp.axis1 >= inp.dimension
             \/ inp.axis2 >= inp.dimension) => out.throws
       /\ ~out.throws =>
            /\ out.value.axis1 = (IF inp.axis1 < inp.axis2 THEN inp.axis1 ELSE inp.axis2)
            /\ out.value.axis2 = (IF inp.axis1 < inp.axis2 THEN inp.axis2 ELSE inp.axis1)
            /\ out.value.axis1 < out.value.axis2
            /\ out.value.axis2 < out.value.dimension
            /\ out.value.dimension = inp.dimension

\* the axes were given in descending order and were reordered
C5_Witness ==
  /\ op = "new RotationND"
  /\ ~out.throws
  /\ inp.axis1 > inp.axis2
  /\ out.value.axis1 = inp.axis2
  /\ out.value.axis2 = inp.axis1

\* C6: RotationND.apply(v) has the squared magnitude of v and leaves every
\* coordinate other than axis1 and axis2 unchanged.
C6_ApplyPreservesMagnitude ==
  (op = "apply" /\ ~out.throws)
    => /\ VectorND_magnitudeSquared(out.value) = VectorND_magnitudeSquared(inp.vector)
       /\ out.value.dimension = inp.vector.dimension
       /\ \A i \in 0..(inp.vector.dimension - 1) :
            i \notin {inp.rotation.axis1, inp.rotation.axis2}
              => out.value.components[i] = inp.vector.components[i]

\* a rotation by an angle that is no quarter turn moves a vector of dimension 3
C6_Witness ==
  /\ op = "apply"
  /\ ~out.throws
  /\ inp.rotation.angle = "p"
  /\ inp.rotation.dimension = 3
  /\ out.value # inp.vector
  /\ VectorND_magnitudeSquared(out.value) = VectorND_magnitudeSquared(inp.vector)

RECURSIVE SumOver(_, _)
SumOver(f, S) ==
  IF S = {} THEN Num(0)
  ELSE LET x == CHOOSE y \in S : TRUE
       IN  Plus(f[x], SumOver(f, S \ {x}))

\* C7: multiply throws when the sizes differ and otherwise returns the
\* row-by-column product; transform throws when the vector's dimension is not
\* the matrix's size and otherwise returns the matrix-vector product; apply
\* throws when the vector's dimension is not the rotation's.
C7_MultiplyTransformApplyCheckDimensions ==
  /\ op = "multiply" =>
       IF inp.this.size # inp.other.size
       THEN out.throws
       ELSE /\ ~out.throws
            /\ out.value.size = inp.this.size
            /\ \A i, j \in 0..(inp.this.size - 1) :
                 out.value.data[i][j] =
                   SumOver([k \in 0..(inp.this.size - 1) |->
                              Times(inp.this.data[i][k], inp.other.data[k][j])],
                           0..(inp.this.size - 1))
  /\ op = "transform" =>
       IF inp.vector.dimension # inp.this.size
       THEN out.throws
       ELSE /\ ~out.throws
            /\ out.value.dimension = inp.this.size
            /\ \A i \in 0..(inp.this.size - 1) :
                 out.value.components[i] =
                   SumOver([j \in 0..(inp.this.size - 1) |->
                              Times(inp.this.data[i][j], inp.vector.components[j])],
                           0..(inp.this.size - 1))
  /\ op = "apply" =>
       (inp.vector.dimension # inp.rotation.dimension => out.throws)

\* transform is called with a vector shorter than the matrix and throws
C7_Witness ==
  /\ op = "transform"
  /\ inp.this.size = 2
  /\ inp.vector.dimension = 1
  /\ out.throws

Builders == {"new", "identity", "zero", "rotation"}

OutOfRange(matrix, row, col) ==
  row \notin 0..(matrix.size - 1) \/ col \notin 0..(matrix.size - 1)

\* C9: get(row, col) returns 0 when row or col is outside 0..n-1, and set with
\* row or col outside 0..n-1 raises no error and changes the value of no get.
C9_OutOfRangeGetAndSet ==
  [][/\ (op' = "get" /\ OutOfRange(heap'[inp'.m], inp'.row, inp'.col))
          => out' = Return(Num(0))
     /\ (op' = "set" /\ OutOfRange(heap[inp'.m], inp'.row, inp'.col))
          => /\ ~out'.throws
             /\ \A row \in -1..MaxSize, col \in -1..MaxSize :
                  MatrixND_get(heap'[inp'.m], row, col)
                    = MatrixND_get(heap[inp'.m], row, col)]_vars

PadGet(v, i) == IF i < v.dimension THEN v.components[i] ELSE Num(0)

\* C10: a.add(b) and a.subtract(b) return a vector of dimension
\* max(a.dimension, b.dimension) whose component i is a[i] + b[i] (a[i] - b[i]),
\* a missing component counting as 0.
C10_AddSubtractZeroPad ==
  op \in {"add", "subtract"}
    => LET a == inp.this
           b == inp.other
           d == IF a.dimension > b.dimension THEN a.dimension ELSE b.dimension
       IN  /\ out.dimension = d
           /\ DOMAIN out.components = 0..(d - 1)
           /\ \A i \in 0..(d - 1) :
                out.components[i] =
                  IF op = "add" THEN Plus(PadGet(a, i), PadGet(b, i))
                  ELSE Minus(PadGet(a, i), PadGet(b, i))

\* the test's case: (-1, 2) + (2, 2, 2) has three components
C10_Witness ==
  /\ op = "add"
  /\ inp.this.dimension = 2
  /\ inp.other.dimension = 3
  /\ out.dimension = 3
  /\ out.components[2] = inp.other.components[2]
  /\ out.components[2] # Num(0)

\* C11: a.dot(b) returns, for vectors of any two dimensions, the sum of
\* a[i] * b[i] over i < min(a.dimension, b.dimension); that is the dot product
\* of the two vectors zero-padded to the larger dimension, and a.dot(b) =
\* b.dot(a).
C11_DotOverSharedComponents ==
  op = "dot"
    => LET a == inp.this
           b == inp.other
           shared == 0..(Min(a.dimension, b.dimension) - 1)
           padded == 0..(Max(a.dimension, b.dimension) - 1)
       IN  /\ ~out.forward.throws
           /\ out.forward.value
                = SumOver([i \in shared |-> Times(a.components[i], b.components[i])],
                          shared)
           /\ out.forward.value
                = SumOver([i \in padded |-> Times(PadGet(a, i), PadGet(b, i))], padded)
           /\ out.backward = out.forward

\* (2, -1) . (2, 2, 2) = 2: the third component of the longer vector is left out
C11_Witness ==
  /\ op = "dot"
  /\ inp.this.dimension = 2
  /\ inp.other.dimension = 3
  /\ inp.this.components[1] = Num(-1)
  /\ inp.other.components[2] = Num(2)
  /\ out.forward.value = Num(2)

IsZeroVector(v) == \A i \in DOMAIN v.components : v.components[i] = Num(0)

\* C12: normalize of a vector whose components are all zero returns the zero
\* vector of the same dimension, and v.projectOnto(z) for an all-zero z
\* returns the zero vector of v's dimension; neither call throws.
C12_ZeroVectorNormalizeAndProject ==
  /\ (op = "normalize" /\ IsZeroVector(inp.this))
       => /\ ~out.throws
          /\ out.value = VectorND_zero(inp.this.dimension)
          /\ out.value.dimension = inp.this.dimension
  /\ (op = "projectOnto" /\ IsZeroVector(inp.other))
       => /\ ~out.throws
          /\ IsZeroVector(out.value)
          /\ out.value = VectorND_zero(inp.this.dimension)

\* (0, 0, 0).normalize() is (0, 0, 0)
C12_Witness ==
  /\ op = "normalize"
  /\ inp.this.dimension = 3
  /\ IsZeroVector(inp.this)
  /\ out.value.dimension = 3
  /\ IsZeroVector(out.value)

\* C13: for newDim >= 0, v.truncate(newDim) is the first
\* min(newDim, v.dimension) components of v; v.extend(newDim) is v when
\* newDim <= v.dimension and otherwise v's components followed by zeros up to
\* dimension newDim; v.extend(m).truncate(v.dimension) is v for every m; and
\* v.get(i) is 0 for every i >= v.dimension.
C13_TruncateExtendGet ==
  /\ (op = "truncate" /\ inp.newDimension >= 0)
       => LET kept == Min(inp.newDimension, inp.this.dimension)
          IN  /\ ~out.throws
              /\ out.value.dimension = kept
              /\ DOMAIN out.value.components = 0..(kept - 1)
              /\ \A i \in 0..(kept - 1) :
                   out.value.components[i] = inp.this.components[i]
  /\ (op = "extend" /\ inp.newDimension >= 0)
       => /\ ~out.extended.throws
          /\ IF inp.newDimension <= inp.this.dimension
             THEN out.extended.value = inp.this
             ELSE /\ out.extended.value.dimension = inp.newDimension
                  /\ DOMAIN out.extended.value.components = 0..(inp.newDimension - 1)
                  /\ \A i \in 0..(inp.newDimension - 1) :
                       out.extended.value.components[i] = PadGet(inp.this, i)
  /\ op = "extend" => out.back = Return(inp.this)
  /\ (op = "get" /\ inp.index >= inp.this.dimension) => out = Return(Num(0))

\* (2, -1) extended to four components and cut back to two
C13_Witness ==
  /\ op = "extend"
  /\ inp.this.dimension = 2
  /\ inp.this.components[0] = Num(2)
  /\ inp.newDimension = 4
  /\ out.extended.value.dimension = 4
  /\ out.extended.value.components[3] = Num(0)
  /\ out.back.value = inp.this

\* bit d of i is set
HasBit(i, d) == i % Pow2(d + 1) >= Pow2(d)

\* C16: createHypercube(dim, size), dim >= 2, returns 2^dim vertices,
\* coordinate d of vertex i being +size when bit d of i is set and -size
\* otherwise; its edges are exactly the pairs i < j that differ in one bit,
\* each once, dim * 2^(dim-1) of them; every vertex has squared magnitude
\* dim * size^2.
C16_HypercubeVerticesAndEdges ==
  (op = "createHypercube" /\ inp.dimension >= 2)
    => LET dim == inp.dimension
           size == inp.size
           count == Pow2(dim)
       IN  /\ DOMAIN out.vertices = 0..(count - 1)
           /\ \A i \in 0..(count - 1) :
                /\ out.vertices[i].dimension = dim
                /\ \A d \in 0..(dim - 1) :
                     out.vertices[i].components[d]
                       = IF HasBit(i, d) THEN size ELSE Neg(size)
                /\ VectorND_magnitudeSquared(out.vertices[i])
                     = Times(Num(dim), Times(size, size))
           /\ Range(out.edges)
                = {<<i, i + Pow2(d)>> : <<i, d>> \in
                     {t \in (0..(count - 1)) \X (0..(dim - 1)) : ~HasBit(t[1], t[2])}}
           /\ Len(out.edges) = Cardinality(Range(out.edges))
           /\ Len(out.edges) = dim * Pow2(dim - 1)

\* the tesseract of half-edge 2: 16 vertices, 32 edges, vertex 5 = (2, -2, 2, -2)
C16_Witness ==
  /\ op = "createHypercube"
  /\ inp.dimension = 4
  /\ inp.size = Num(2)
  /\ Len(out.edges) = 32
  /\ <<5, 13>> \in Range(out.edges)
  /\ out.vertices[5].components[0] = Num(2)
  /\ out.vertices[5].components[1] = Num(-2)

\* C17: createSimplex(dim), dim >= 2, returns dim + 1 vertices; its edges are
\* exactly the pairs i < j of vertex indices, (dim + 1) * dim / 2 of them; its
\* faces are exactly the 3-element subsets of the vertex indices, each once.
C17_SimplexCompleteGraph ==
  (op = "createSimplex" /\ inp.dimension >= 2)
    => LET dim == inp.dimension
           indices == 0..dim
       IN  /\ DOMAIN out.vertices = indices
           /\ Cardinality(DOMAIN out.vertices) = dim + 1
           /\ Range(out.edges) = {e \in indices \X indices : e[1] < e[2]}
           /\ Len(out.edges) = ((dim + 1) * dim) \div 2
           /\ \A k \in DOMAIN out.faces : Cardinality(Range(out.faces[k])) = 3
           /\ {Range(out.faces[k]) : k \in DOMAIN out.faces}
                = {S \in SUBSET indices : Cardinality(S) = 3}
           /\ Len(out.faces) = Cardinality({Range(out.faces[k]) : k \in DOMAIN out.faces})

\* the 5-cell: 5 vertices, 10 edges, 10 triangles
C17_Witness ==
  /\ op = "createSimplex"
  /\ inp.dimension = 4
  /\ Len(out.edges) = 10
  /\ Len(out.faces) = 10
  /\ <<3, 4>> \in Range(out.edges)
  /\ <<2, 3, 4>> \in Range(out.faces)

\* the unordered pair {a, b} is an edge of the geometry
Joined(geometry, a, b) ==
  <<a, b>> \in Range(geometry.edges) \/ <<b, a>> \in Range(geometry.edges)

\* C18: createOrthoplex(dim, size), dim >= 2, returns 2 * dim vertices, vertex
\* 2d being +size and vertex 2d + 1 being -size on axis d and 0 on every other
\* axis; its edges are exactly the pairs i < j on different axes
\* (floor(i/2) # floor(j/2)), 2 * dim * (dim - 1) of them; every face is a
\* triple of vertices joined pairwise by edges.
C18_OrthoplexVerticesEdgesFaces ==
  (op = "createOrthoplex" /\ inp.dimension >= 2)
    => LET dim == inp.dimension
           indices == 0..(2 * dim - 1)
       IN  /\ DOMAIN out.vertices = indices
           /\ \A d \in 0..(dim - 1) :
                /\ out.vertices[2 * d].components[d] = inp.size
                /\ out.vertices[2 * d + 1].components[d] = Neg(inp.size)
           /\ \A v \in indices :
                /\ out.vertices[v].dimension = dim
                /\ Cardinality({k \in 0..(dim - 1) :
                                  out.vertices[v].components[k] # Num(0)}) = 1
           /\ Range(out.edges)
                = {e \in indices \X indices :
                     e[1] < e[2] /\ e[1] \div 2 # e[2] \div 2}
           /\ Len(out.edges) = 2 * dim * (dim - 1)
           /\ \A k \in DOMAIN out.faces :
                LET face == out.faces[k]
                IN  /\ Len(face) = 3
                    /\ Joined(out, face[1], face[2])
                    /\ Joined(out, face[1], face[3])
                    /\ Joined(out, face[2], face[3])

\* the octahedron of radius 2: 6 vertices, 12 edges, 8 triangles
C18_Witness ==
  /\ op = "createOrthoplex"
  /\ inp.dimension = 3
  /\ inp.size = Num(2)
  /\ Len(out.edges) = 12
  /\ Len(out.faces) = 8
  /\ out.vertices[3].components[1] = Num(-2)
  /\ <<1, 3, 5>> \in Range(out.faces)
  /\ <<0, 1>> \notin Range(out.edges)

\* C19: create24Cell(size) returns 24 vertices of dimension 4, each of
\* magnitude size.
C19_Cell24VerticesOnOneSphere ==
  op = "create24Cell"
    => /\ DOMAIN out.vertices = 0..23
       /\ \A v \in DOMAIN out.vertices :
            /\ out.vertices[v].dimension = 4
            /\ VectorND_magnitude(out.vertices[v]) = inp.size

\* the number of edges that have vertex v as an endpoint
Degree(geometry, v) ==
  Cardinality({k \in DOMAIN geometry.edges :
                 geometry.edges[k][1] = v \/ geometry.edges[k][2] = v})

\* C20: create24Cell returns 96 edges, each joining two vertices whose
\* squared distance is within 0.01 * size^2 of 2 * size^2, and every vertex is
\* an endpoint of exactly 8 edges.
C20_Cell24EdgeStructure ==
  op = "create24Cell"
    => /\ Len(out.edges) = 96
       /\ \A k \in DOMAIN out.edges :
            LET a == out.vertices[out.edges[k][1]]
                b == out.vertices[out.edges[k][2]]
                distSq == VectorND_magnitudeSquared(VectorND_subtract(a, b))
            IN  Less(MathAbs(Minus(distSq, Times(Num(2), Times(inp.size, inp.size)))),
                     Times(Rat(1, 100), Times(inp.size, inp.size)))
       /\ \A v \in DOMAIN out.vertices : Degree(out, v) = 8

Generators ==
  {"createHypercube", "createSimplex", "createOrthoplex", "create24Cell",
   "create600Cell", "createCliffordTorus", "createDuocylinder", "createHypercone",
   "createGrandAntiprism"}

\* C14: in the geometry returned by each of the nine generators, for positive
\* dimension / segments / rings, every index in edges and in faces is an
\* integer i with 0 <= i < vertices.length.
C14_IndicesWithinVertices ==
  op \in Generators
    => LET length == Cardinality(DOMAIN out.vertices)
       IN  /\ DOMAIN out.vertices = 0..(length - 1)
           /\ \A k \in DOMAIN out.edges :
                \A i \in Range(out.edges[k]) : i \in Int /\ 0 <= i /\ i < length
           /\ \A k \in DOMAIN out.faces :
                \A i \in Range(out.faces[k]) : i \in Int /\ 0 <= i /\ i < length

\* a cone of 3 segments and 2 rings: 13 vertices, the rings are indexed 3 apart
\* and the edge from vertex 3 wraps around to vertex 1
C14_Witness ==
  /\ op = "createHypercone"
  /\ inp.segments = 3
  /\ inp.rings = 2
  /\ Cardinality(DOMAIN out.vertices) = 13
  /\ <<3, 6>> \in Range(out.edges)
  /\ <<3, 1>> \in Range(out.edges)
  /\ <<0, 3, 1>> \in Range(out.faces)

\* C15: in the geometry returned by each of the nine generators, for positive
\* dimension / segments / rings, no unordered pair of vertices occurs twice
\* in edges.
C15_NoRepeatedEdge ==
  op \in Generators
    => \A k, l \in DOMAIN out.edges :
         k # l => Range(out.edges[k]) # Range(out.edges[l])

\* C21: create600Cell(size) returns exactly 120 vertices, no two of them
\* equal: the 8 axis vertices, the 16 half vertices and 96 from the even
\* permutations of (phi/2, 1/2, 1/(2 phi), 0) * size.
C21_Cell600Has120Vertices ==
  op = "create600Cell"
    => /\ DOMAIN out.vertices = 0..119
       /\ \A v, w \in DOMAIN out.vertices :
            v # w => out.vertices[v] # out.vertices[w]

\* C22: createCliffordTorus(majorSegments, minorSegments) returns
\* majorSegments * minorSegments vertices, twice as many edges and twice as
\* many faces of three indices; the edges are exactly, for each grid vertex
\* (i, j) at index i * minorSegments + j, the edge to (i, (j + 1) mod
\* minorSegments) and the edge to ((i + 1) mod majorSegments, j).
\* createDuocylinder(segments) is the same with both counts equal to segments.
C22_GridCountsAndWrap ==
  op \in {"createCliffordTorus", "createDuocylinder"}
    => LET major == IF op = "createDuocylinder" THEN inp.segments ELSE inp.majorSegments
           minor == IF op = "createDuocylinder" THEN inp.segments ELSE inp.minorSegments
           Index(i, j) == i * minor + j
           wanted == UNION {{<<Index(i, j), Index(i, (j + 1) % minor)>>,
                             <<Index(i, j), Index((i + 1) % major, j)>>} :
                              i \in 0..(major - 1), j \in 0..(minor - 1)}
       IN  /\ DOMAIN out.vertices = 0..(major * minor - 1)
           /\ Len(out.edges) = 2 * major * minor
           /\ Len(out.faces) = 2 * major * minor
           /\ \A k \in DOMAIN out.faces : Len(out.faces[k]) = 3
           /\ Range(out.edges) = wanted

\* a torus of 3 by 4: the last vertex of row 0 is joined to the first of row
\* 0, the first of the last row to the first of row 0
C22_Witness ==
  /\ op = "createCliffordTorus"
  /\ inp.majorSegments = 3
  /\ inp.minorSegments = 4
  /\ Cardinality(DOMAIN out.vertices) = 12
  /\ Len(out.edges) = 24
  /\ Len(out.faces) = 24
  /\ <<3, 0>> \in Range(out.edges)
  /\ <<8, 0>> \in Range(out.edges)

C23_ProjectTo3D ==
  (op = "projectTo3D" /\ inp.point.dimension >= 3)
    => LET n == inp.point.dimension
           before(k) == IF k = 1 THEN inp.point ELSE out.calls[k - 1]
       IN  /\ Len(out.calls) = n - 3
           /\ \A k \in 1..Len(out.calls) :
                /\ out.calls[k] = project(before(k), inp.config)
                /\ out.calls[k].dimension = before(k).dimension - 1
           /\ out.value.dimension = 3
           /\ out.value = (IF n = 3 THEN inp.point ELSE out.calls[n - 3])
           /\ inp.config.type = "orthographic"
                => \A i \in 0..2 :
                     out.value.components[i] = inp.point.components[i]

\* a 5-dimensional point under a perspective with viewDistance 3: two calls
C23_Witness ==
  /\ op = "projectTo3D"
  /\ inp.point.dimension = 5
  /\ inp.config = [type |-> "perspective", viewDistance |-> Num(3)]
  /\ Len(out.calls) = 2
  /\ out.calls[1].dimension = 4
  /\ out.value.dimension = 3
  /\ out.value # VectorND_truncate(inp.point, 3)

\* C25: for every dim >= 2, createHypercube(dim) returns C(dim, 2) * 2^(dim-2)
\* faces; each face lists 4 distinct vertex indices that agree on every bit
\* except two axis bits a1 < a2, in the cyclic order (none, a1, a1 + a2, a2),
\* so that cyclically consecutive corners of a face are joined by an edge of
\* the hypercube, and no two faces have the same vertex set.
C25_HypercubeFaces ==
  (op = "createHypercube" /\ inp.dimension >= 2)
    => LET dim == inp.dimension
           faces == out.faces
       IN  /\ Len(faces) = ((dim * (dim - 1)) \div 2) * Pow2(dim - 2)
           /\ \A k \in DOMAIN faces :
                LET face == faces[k]
                IN  /\ DOMAIN face = 1..4
                    /\ Cardinality(Range(face)) = 4
                    /\ \E a1, a2 \in 0..(dim - 1) :
                         /\ a1 < a2
                         /\ ~HasBit(face[1], a1) /\ ~HasBit(face[1], a2)
                         /\ face[1] \in 0..(Pow2(dim) - 1)
                         /\ face[2] = face[1] + Pow2(a1)
                         /\ face[3] = face[1] + Pow2(a1) + Pow2(a2)
                         /\ face[4] = face[1] + Pow2(a2)
                    /\ \A c \in 1..4 : Joined(out, face[c], face[(c % 4) + 1])
           /\ \A k, l \in DOMAIN faces :
                Range(faces[k]) = Range(faces[l]) => k = l

\* the tesseract has 24 faces; the one pushed last varies the axes 2 and 3
\* with the bits 0 and 1 set
C25_Witness ==
  /\ op = "createHypercube"
  /\ inp.dimension = 4
  /\ Len(out.faces) = 24
  /\ out.faces[1] = <<0, 1, 3, 2>>
  /\ out.faces[24] = <<3, 7, 15, 11>>

\* C26: for all segments >= 2 and rings >= 1, createHypercone(segments, rings)
\* produces one apex at index 0 followed by rings layers of exactly
\* segments * floor(segments / 2) vertices each, and the vertices joined to
\* the apex by an edge are exactly the vertices of the first layer.
C26_HyperconeApexJoinsFirstLayer ==
  (op = "createHypercone" /\ inp.segments >= 2 /\ inp.rings >= 1)
    => LET layerSize == inp.segments * (inp.segments \div 2)
           height == Times(inp.size, Rat(3, 2))
           \* the height of the vertices of a layer, 0 being the apex
           W(ring) == Product(Surd(Times(height, Minus(Num(1), Rat(ring, inp.rings))),
                                   Num(1)), <<>>)
           Layer(ring) == {i \in DOMAIN out.vertices \ {0} :
                             out.vertices[i].components[3] = W(ring)}
       IN  /\ DOMAIN out.vertices = 0..(inp.rings * layerSize)
           /\ out.vertices[0].components[3] = W(0)
           /\ \A ring \in 1..inp.rings :
                Layer(ring) = (1 + (ring - 1) * layerSize)..(ring * layerSize)
           /\ {i \in DOMAIN out.vertices : Joined(out, 0, i)} = Layer(1)

\* C27: in every state of the store reached by setGeometryType, setDimension
\* and setCustomGeometry (custom geometries being well-formed), the geometry
\* the viewer builds has vertices of exactly the store's dimension, so no
\* frame fails in rotationMatrix.transform(vertex); in particular
\* geometryType '24-cell' never coexists with a dimension other than 4.
C27_ViewerGeometryHasStoreDimension ==
  /\ \A v \in DOMAIN baseGeometry(store).vertices :
       baseGeometry(store).vertices[v].dimension = store.dimension
  /\ op = "useFrame" => ~out.throws
  /\ store.geometryType = "24-cell" => store.dimension = 4

\* C28: in every state of the store reached by its handlers, geometryType
\* is 'custom' if and only if customGeometry is not null.
C28_CustomTypeIffCustomGeometry ==
  store.geometryType = "custom" <=> store.customGeometry # null

\* C29: in every state of the store reached by setDimension,
\* setCustomGeometry, setGeometryType and toggleRotationPlane (called with a
\* plane name of the current dimension), activeRotationPlanes has no
\* duplicates and only names of getRotationPlaneNames(dimension); right after
\* setDimension(d) it is the first names, two at most, in getRotationPlanes
\* order, that contain W, V or U (['XW', 'YW'] for d = 4).
C29_ActivePlanesAreValid ==
  LET active == store.activeRotationPlanes
      names == getRotationPlaneNames(store.dimension)
      planes == getRotationPlanes(store.dimension)
      higher == {p \in DOMAIN planes : planes[p][1] \in 3..5 \/ planes[p][2] \in 3..5}
      \* the number of planes before p that contain W, V or U
      Before(p) == Cardinality({q \in higher : q < p})
  IN  /\ Cardinality(Range(active)) = Len(active)
      /\ Range(active) \subseteq Range(names)
      /\ op = "setDimension"
           => /\ Len(active) = Min(2, Cardinality(higher))
              /\ \A p \in higher : Before(p) < 2 => active[Before(p) + 1] = names[p]
              /\ store.dimension = 4 => active = <<"XW", "YW">>

\* C30: after every call of step that returns, whatever deltaTime, the edges
\* and the calls before it, every coordinate d < dimension of every
\* particle's position lies within [bounds.min, bounds.max], and a coordinate
\* that the call clamped to a wall has a velocity that points back into the
\* box (>= 0 at bounds.min, <= 0 at bounds.max).
C30_StepKeepsParticlesInBox ==
  [][(op' = "step" /\ ~out'.throws)
       => \A p \in DOMAIN engine'.particles, d \in 0..(engine'.dimension - 1) :
            LET pos == VectorND_get(engine'.particles[p].position, d)
                vel == VectorND_get(engine'.particles[p].velocity, d)
                moved == VectorND_get(stepMotion(engine, inp'.deltaTime, inp'.rest)
                                        .engine.particles[p].position, d)
                min == engine'.bounds.min
                max == engine'.bounds.max
            IN  /\ pos = min \/ pos = max \/ (NumberLess(min, pos) /\ NumberLess(pos, max))
                /\ NumberLess(moved, min) => (vel = Num(0) \/ NumberLess(Num(0), vel))
                /\ NumberLess(max, moved) => (vel = Num(0) \/ NumberLess(vel, Num(0)))]_vars

=============================================================================
